---- MODULE Spec2Model ----
(***************************************************************************)
(* A model of src/src/messages.rs, the message types of the FSD wire       *)
(* protocol codec: for every message variant its constructor (new), its    *)
(* formatter (Display::fmt) and its parser (TryFrom<&[&str]>::try_from).   *)
(*                                                                         *)
(* Text is modelled as it is on the wire: a string is a sequence of        *)
(* characters, a line is split on ':' into a sequence of fields, and field *)
(* i of the source (0-based) is F(fields, i).  to_uppercase, the splitting *)
(* and the joining of fields are computed character by character.          *)
(*                                                                         *)
(* The codec keeps no state; the state of the model is one caller's use of *)
(* it: the caller parses a line or constructs a message, may format the    *)
(* message, may parse the formatted line again, and discards the values.   *)
(***************************************************************************)
EXTENDS Integers, Sequences, FiniteSets, TLC

VARIABLES
    pc,       \* "idle", "result", "formatted" or "reparsed"
    how,      \* how the message in res was obtained: "parse", "new" or "none"
    variant,  \* the message type whose parser/constructor was called
    fields,   \* the field sequence handed to try_from ("parse" only)
    res,      \* the Result returned by try_from, or Ok(new(...))
    line,     \* the text produced by Display::fmt on res.msg
    back      \* the Result of parsing the fields of line again

vars == <<pc, how, variant, fields, res, line, back>>

-----------------------------------------------------------------------------
(* Bounds of the model.                                                    *)

\* number of fields a generated line may have beyond its sample line
MaxExtra == 2

-----------------------------------------------------------------------------
(* Characters and strings.                                                 *)

LowerLetters ==
    <<"a","b","c","d","e","f","g","h","i","j","k","l","m",
      "n","o","p","q","r","s","t","u","v","w","x","y","z">>

UpperLetters ==
    <<"A","B","C","D","E","F","G","H","I","J","K","L","M",
      "N","O","P","Q","R","S","T","U","V","W","X","Y","Z">>

Digits == <<"0","1","2","3","4","5","6","7","8","9">>

\* char::to_uppercase on the ASCII letters
UpperChar(c) ==
    IF \E i \in 1..26 : LowerLetters[i] = c
    THEN UpperLetters[CHOOSE i \in 1..26 : LowerLetters[i] = c]
    ELSE c

\* str::to_uppercase
to_uppercase(s) == [i \in 1..Len(s) |-> UpperChar(s[i])]

\* concatenation of a sequence of strings (the pieces of a write!/format!)
RECURSIVE Cat(_)
Cat(ss) == IF ss = <<>> THEN <<>> ELSE Head(ss) \o Cat(Tail(ss))

\* &s[k..]: the string without its first k bytes
Strip(s, k) == SubSeq(s, k + 1, Len(s))

\* slice.join(":")
RECURSIVE join(_)
join(fs) ==
    IF fs = <<>> THEN <<>>
    ELSE IF Len(fs) = 1 THEN fs[1]
    ELSE fs[1] \o <<":">> \o join(Tail(fs))

\* str::split(':'), the tokenizer: the fields of a line
RECURSIVE SplitAcc(_, _, _)
SplitAcc(s, cur, acc) ==
    IF s = <<>> THEN Append(acc, cur)
    ELSE IF Head(s) = ":" THEN SplitAcc(Tail(s), <<>>, Append(acc, cur))
    ELSE SplitAcc(Tail(s), Append(cur, Head(s)), acc)

split(s) == SplitAcc(s, <<>>, <<>>)

\* fields[i] of the source (0-based); an index past the end aborts the
\* program, so every use is guarded by InRange in the parsers below
F(fs, i) == fs[i + 1]

InRange(fs, i) == i < Len(fs)

\* &fields[i..]
From(fs, i) == SubSeq(fs, i + 1, Len(fs))

\* Option<T>
Some(v) == [some |-> TRUE, val |-> v]
None == [some |-> FALSE, val |-> <<>>]

\* fields.get(i).copied() / fields.get(i).map(|s| s.to_string())
get(fs, i) == IF InRange(fs, i) THEN Some(F(fs, i)) ELSE None

-----------------------------------------------------------------------------
(* Results and errors.                                                     *)

NoMsg == [kind |-> "none"]
NoErr == [kind |-> "none", expected |-> 0, actual |-> 0, text |-> <<>>]

Ok(m) == [tag |-> "ok", msg |-> m, err |-> NoErr]
Err(e) == [tag |-> "err", msg |-> NoMsg, err |-> e]
\* the call does not return: the thread panics (index out of bounds)
Panic == [tag |-> "panic", msg |-> NoMsg, err |-> NoErr]

\* FsdMessageParseError::InvalidFieldCount(expected, actual)
InvalidFieldCount(e, a) ==
    [kind |-> "InvalidFieldCount", expected |-> e, actual |-> a, text |-> <<>>]

\* the error kinds that carry one string
TextError(k, t) == [kind |-> k, expected |-> 0, actual |-> 0, text |-> t]

\* the outcome of a check that lets the parser go on to its next statement
Continue == [tag |-> "continue", msg |-> NoMsg, err |-> NoErr]

\* check_min_num_fields! with the two arguments of the error exchanged
check_min_num_fields_swapped(fs, i) ==
    IF Len(fs) < i THEN Err(InvalidFieldCount(Len(fs), i)) ELSE Continue

\* check_min_num_fields!(fields, i): returns the error from the parser when
\* there are fewer than i fields
check_min_num_fields(fs, i) ==
    IF Len(fs) < i THEN Err(InvalidFieldCount(i, Len(fs))) ELSE Continue

\* check_exact_num_fields! comparing as check_min_num_fields! does
check_exact_num_fields_as_min(fs, i) ==
    IF Len(fs) < i THEN Err(InvalidFieldCount(i, Len(fs))) ELSE Continue

\* check_exact_num_fields!(fields, i): returns the error from the parser
\* when the number of fields is not i
check_exact_num_fields(fs, i) ==
    IF Len(fs) # i THEN Err(InvalidFieldCount(i, Len(fs))) ELSE Continue

-----------------------------------------------------------------------------
(* The message variants whose fields are all strings.                      *)

\* AtcDeregisterMessage::new
AtcDeregisterMessage_new(from, cid) ==
    [kind |-> "AtcDeregisterMessage", from |-> to_uppercase(from), cid |-> Some(cid)]

\* Display for AtcDeregisterMessage
AtcDeregisterMessage_fmt(m) ==
    IF m.cid.some
    THEN Cat(<< <<"#","D","A">>, m.from, <<":">>, m.cid.val >>)
    ELSE Cat(<< <<"#","D","A">>, m.from >>)

\* TryFrom<&[&str]> for AtcDeregisterMessage
AtcDeregisterMessage_try_from(fs) ==
    IF check_min_num_fields(fs, 1) # Continue THEN check_min_num_fields(fs, 1)
    ELSE LET first == Strip(F(fs, 0), 3)
             cid == get(fs, 1)
         IN Ok([kind |-> "AtcDeregisterMessage",
                from |-> to_uppercase(first), cid |-> cid])

\* PilotDeregisterMessage::new
PilotDeregisterMessage_new(from, cid) ==
    [kind |-> "PilotDeregisterMessage", from |-> to_uppercase(from), cid |-> Some(cid)]

\* Display for PilotDeregisterMessage
PilotDeregisterMessage_fmt(m) ==
    IF m.cid.some
    THEN Cat(<< <<"#","D","P">>, m.from, <<":">>, m.cid.val >>)
    ELSE Cat(<< <<"#","D","P">>, m.from >>)

\* TryFrom<&[&str]> for PilotDeregisterMessage
PilotDeregisterMessage_try_from(fs) ==
    IF check_min_num_fields(fs, 1) # Continue THEN check_min_num_fields(fs, 1)
    ELSE LET first == Strip(F(fs, 0), 3)
             cid == get(fs, 1)
         IN Ok([kind |-> "PilotDeregisterMessage",
                from |-> to_uppercase(first), cid |-> cid])

\* AuthenticationChallengeMessage::new
AuthenticationChallengeMessage_new(from, to, challenge) ==
    [kind |-> "AuthenticationChallengeMessage",
     from |-> to_uppercase(from), to |-> to_uppercase(to), challenge |-> challenge]

\* Display for AuthenticationChallengeMessage
AuthenticationChallengeMessage_fmt(m) ==
    Cat(<< <<"$","Z","C">>, m.from, <<":">>, m.to, <<":">>, m.challenge >>)

\* TryFrom<&[&str]> for AuthenticationChallengeMessage
AuthenticationChallengeMessage_try_from(fs) ==
    IF check_min_num_fields(fs, 3) # Continue THEN check_min_num_fields(fs, 3)
    ELSE LET first == Strip(F(fs, 0), 3)
         IN Ok(AuthenticationChallengeMessage_new(first, F(fs, 1), F(fs, 2)))

\* AuthenticationResponseMessage::new
AuthenticationResponseMessage_new(from, to, response) ==
    [kind |-> "AuthenticationResponseMessage",
     from |-> to_uppercase(from), to |-> to_uppercase(to), response |-> response]

\* Display for AuthenticationResponseMessage
AuthenticationResponseMessage_fmt(m) ==
    Cat(<< <<"$","Z","R">>, m.from, <<":">>, m.to, <<":">>, m.response >>)

\* TryFrom<&[&str]> for AuthenticationResponseMessage
AuthenticationResponseMessage_try_from(fs) ==
    IF check_min_num_fields(fs, 3) # Continue THEN check_min_num_fields(fs, 3)
    ELSE LET first == Strip(F(fs, 0), 3)
         IN Ok(AuthenticationResponseMessage_new(first, F(fs, 1), F(fs, 2)))

\* TextMessage::new
TextMessage_new(from, to, message) ==
    [kind |-> "TextMessage",
     from |-> to_uppercase(from), to |-> to_uppercase(to), message |-> message]

\* Display for TextMessage
TextMessage_fmt(m) ==
    Cat(<< <<"#","T","M">>, m.from, <<":">>, m.to, <<":">>, m.message >>)

\* the message without the loop over fields[3..]: the body is fields[2] alone
push_rest_dropped(message, rest) == message

\* the loop of TextMessage::try_from: push ':' and the field, for each of
\* fields[3..]
RECURSIVE push_rest(_, _)
push_rest(message, rest) ==
    IF rest = <<>> THEN message
    ELSE push_rest(message \o <<":">> \o Head(rest), Tail(rest))

\* TryFrom<&[&str]> for TextMessage
TextMessage_try_from(fs) ==
    IF check_min_num_fields(fs, 3) # Continue THEN check_min_num_fields(fs, 3)
    ELSE LET first == Strip(F(fs, 0), 3)
             message == IF Len(fs) > 3 THEN push_rest(F(fs, 2), From(fs, 3))
                        ELSE F(fs, 2)
         IN Ok(TextMessage_new(first, F(fs, 1), message))

\* ChangeServerMessage::new
ChangeServerMessage_new(from, to, hostname) ==
    [kind |-> "ChangeServerMessage",
     from |-> to_uppercase(from), to |-> to_uppercase(to), hostname |-> hostname]

\* Display for ChangeServerMessage
ChangeServerMessage_fmt(m) ==
    Cat(<< <<"$","X","X">>, m.from, <<":">>, m.to, <<":">>, m.hostname >>)

\* TryFrom<&[&str]> for ChangeServerMessage
ChangeServerMessage_try_from(fs) ==
    IF check_min_num_fields(fs, 3) # Continue THEN check_min_num_fields(fs, 3)
    ELSE LET first == Strip(F(fs, 0), 3)
         IN Ok(ChangeServerMessage_new(first, F(fs, 1), F(fs, 2)))

\* InitialServerHandshakeMessage::new
InitialServerHandshakeMessage_new(from, to, version, initial_key) ==
    [kind |-> "InitialServerHandshakeMessage",
     from |-> to_uppercase(from), to |-> to_uppercase(to),
     version |-> version, initial_key |-> initial_key]

\* Display for InitialServerHandshakeMessage
InitialServerHandshakeMessage_fmt(m) ==
    Cat(<< <<"$","D","I">>, m.from, <<":">>, m.to, <<":">>, m.version,
           <<":">>, m.initial_key >>)

\* TryFrom<&[&str]> for InitialServerHandshakeMessage: the count check asks
\* for 3 fields and the constructor call reads fields[3]
InitialServerHandshakeMessage_try_from(fs) ==
    IF check_min_num_fields(fs, 3) # Continue THEN check_min_num_fields(fs, 3)
    ELSE IF ~InRange(fs, 3) THEN Panic
    ELSE LET first == Strip(F(fs, 0), 3)
         IN Ok(InitialServerHandshakeMessage_new(first, F(fs, 1), F(fs, 2), F(fs, 3)))

\* SendFastPositionUpdatesMessage::new
SendFastPositionUpdatesMessage_new(from, to, send_fast) ==
    [kind |-> "SendFastPositionUpdatesMessage",
     from |-> to_uppercase(from), to |-> to_uppercase(to), send_fast |-> send_fast]

\* Display for SendFastPositionUpdatesMessage (send_fast as u8)
SendFastPositionUpdatesMessage_fmt(m) ==
    Cat(<< <<"$","S","F">>, m.from, <<":">>, m.to, <<":">>,
           IF m.send_fast THEN <<"1">> ELSE <<"0">> >>)

\* TryFrom<&[&str]> for SendFastPositionUpdatesMessage
SendFastPositionUpdatesMessage_try_from(fs) ==
    IF check_min_num_fields(fs, 3) # Continue THEN check_min_num_fields(fs, 3)
    ELSE LET first == Strip(F(fs, 0), 3)
         IN Ok(SendFastPositionUpdatesMessage_new(first, F(fs, 1), F(fs, 2) = <<"1">>))

\* KillMessage::new (reason: Option)
KillMessage_new(from, to, reason) ==
    [kind |-> "KillMessage",
     from |-> to_uppercase(from), to |-> to_uppercase(to), reason |-> reason]

\* a formatter of the kill message that writes the reason field always
KillMessage_fmt_always(m) ==
    Cat(<< <<"$","!","!">>, m.from, <<":">>, m.to, <<":">>, m.reason.val >>)

\* Display for KillMessage
KillMessage_fmt(m) ==
    LET message == Cat(<< <<"$","!","!">>, m.from, <<":">>, m.to >>)
    IN IF m.reason.some THEN message \o <<":">> \o m.reason.val ELSE message

\* TryFrom<&[&str]> for KillMessage
KillMessage_try_from(fs) ==
    IF check_min_num_fields(fs, 2) # Continue THEN check_min_num_fields(fs, 2)
    ELSE LET first == Strip(F(fs, 0), 3)
         IN Ok(KillMessage_new(first, F(fs, 1), get(fs, 2)))

\* MetarRequestMessage::new
MetarRequestMessage_new(from, to, station) ==
    [kind |-> "MetarRequestMessage",
     from |-> to_uppercase(from), to |-> to_uppercase(to),
     station |-> to_uppercase(station)]

\* Display for MetarRequestMessage
MetarRequestMessage_fmt(m) ==
    Cat(<< <<"$","A","X">>, m.from, <<":">>, m.to, <<":">>,
           <<"M","E","T","A","R">>, <<":">>, m.station >>)

\* TryFrom<&[&str]> for MetarRequestMessage
MetarRequestMessage_try_from(fs) ==
    IF check_min_num_fields(fs, 4) # Continue THEN check_min_num_fields(fs, 4)
    ELSE LET first == Strip(F(fs, 0), 3)
         IN Ok(MetarRequestMessage_new(first, F(fs, 1), F(fs, 3)))

\* MetarResponseMessage::new
MetarResponseMessage_new(from, to, metar) ==
    [kind |-> "MetarResponseMessage",
     from |-> to_uppercase(from), to |-> to_uppercase(to),
     metar |-> to_uppercase(metar)]

\* Display for MetarResponseMessage
MetarResponseMessage_fmt(m) ==
    Cat(<< <<"$","A","R">>, m.from, <<":">>, m.to, <<":">>,
           <<"M","E","T","A","R">>, <<":">>, m.metar >>)

\* TryFrom<&[&str]> for MetarResponseMessage
MetarResponseMessage_try_from(fs) ==
    IF check_min_num_fields(fs, 4) # Continue THEN check_min_num_fields(fs, 4)
    ELSE LET first == Strip(F(fs, 0), 3)
         IN Ok(MetarResponseMessage_new(first, F(fs, 1), F(fs, 3)))

\* PingMessage::new
PingMessage_new(from, to, data) ==
    [kind |-> "PingMessage",
     from |-> to_uppercase(from), to |-> to_uppercase(to), data |-> data]

\* Display for PingMessage
PingMessage_fmt(m) ==
    Cat(<< <<"$","P","I">>, m.from, <<":">>, m.to, <<":">>, m.data >>)

\* the parser of the ping keeping the fields behind the second in its data
PingMessage_try_from_greedy(fs) ==
    IF check_min_num_fields(fs, 3) # Continue THEN check_min_num_fields(fs, 3)
    ELSE Ok(PingMessage_new(Strip(F(fs, 0), 3), F(fs, 1), join(From(fs, 2))))

\* TryFrom<&[&str]> for PingMessage
PingMessage_try_from(fs) ==
    IF check_min_num_fields(fs, 3) # Continue THEN check_min_num_fields(fs, 3)
    ELSE LET first == Strip(F(fs, 0), 3)
         IN Ok(PingMessage_new(first, F(fs, 1), F(fs, 2)))

\* PongMessage::new
PongMessage_new(from, to, data) ==
    [kind |-> "PongMessage",
     from |-> to_uppercase(from), to |-> to_uppercase(to), data |-> data]

\* Display for PongMessage
PongMessage_fmt(m) ==
    Cat(<< <<"$","P","O">>, m.from, <<":">>, m.to, <<":">>, m.data >>)

\* TryFrom<&[&str]> for PongMessage
PongMessage_try_from(fs) ==
    IF check_min_num_fields(fs, 3) # Continue THEN check_min_num_fields(fs, 3)
    ELSE LET first == Strip(F(fs, 0), 3)
         IN Ok(PongMessage_new(first, F(fs, 1), F(fs, 2)))

\* PlaneInfoRequestMessage::new: from.as_ref().into(), to.as_ref().into()
PlaneInfoRequestMessage_new(from, to) ==
    [kind |-> "PlaneInfoRequestMessage", from |-> from, to |-> to]

\* Display for PlaneInfoRequestMessage
PlaneInfoRequestMessage_fmt(m) ==
    Cat(<< <<"#","S","B">>, m.from, <<":">>, m.to, <<":">>, <<"P","I","R">> >>)

\* TryFrom<&[&str]> for PlaneInfoRequestMessage
PlaneInfoRequestMessage_try_from(fs) ==
    IF check_min_num_fields(fs, 3) # Continue THEN check_min_num_fields(fs, 3)
    ELSE LET first == Strip(F(fs, 0), 3)
         IN Ok(PlaneInfoRequestMessage_new(first, F(fs, 1)))

\* HandoffOfferMessage::new
HandoffOfferMessage_new(from, to, aircraft) ==
    [kind |-> "HandoffOfferMessage",
     from |-> to_uppercase(from), to |-> to_uppercase(to),
     aircraft |-> to_uppercase(aircraft)]

\* Display for HandoffOfferMessage
HandoffOfferMessage_fmt(m) ==
    Cat(<< <<"$","H","O">>, m.from, <<":">>, m.to, <<":">>, m.aircraft >>)

\* TryFrom<&[&str]> for HandoffOfferMessage
HandoffOfferMessage_try_from(fs) ==
    IF Len(fs) < 3 THEN Err(InvalidFieldCount(3, Len(fs)))
    ELSE LET first == Strip(F(fs, 0), 3)
         IN Ok(HandoffOfferMessage_new(first, F(fs, 1), F(fs, 2)))

\* HandoffAcceptMessage::new
HandoffAcceptMessage_new(from, to, aircraft) ==
    [kind |-> "HandoffAcceptMessage",
     from |-> to_uppercase(from), to |-> to_uppercase(to),
     aircraft |-> to_uppercase(aircraft)]

\* Display for HandoffAcceptMessage
HandoffAcceptMessage_fmt(m) ==
    Cat(<< <<"$","H","A">>, m.from, <<":">>, m.to, <<":">>, m.aircraft >>)

\* TryFrom<&[&str]> for HandoffAcceptMessage
HandoffAcceptMessage_try_from(fs) ==
    IF Len(fs) < 3 THEN Err(InvalidFieldCount(3, Len(fs)))
    ELSE LET first == Strip(F(fs, 0), 3)
         IN Ok(HandoffAcceptMessage_new(first, F(fs, 1), F(fs, 2)))

-----------------------------------------------------------------------------
(* Numbers in text.  The texts of the model are short: a number has at     *)
(* most MaxDigits digits, which keeps every value inside TLC's integers.   *)

MaxDigits == 6

\* Option<number>
SomeN(n) == [some |-> TRUE, val |-> n]
NoneN == [some |-> FALSE, val |-> 0]

DigitSet == {Digits[i] : i \in 1..10}

DigitVal(c) == (CHOOSE i \in 1..10 : Digits[i] = c) - 1

IsDigits(s) == s # <<>> /\ \A i \in 1..Len(s) : s[i] \in DigitSet

RECURSIVE DecValue(_)
DecValue(s) == IF s = <<>> THEN 0 ELSE 10 * DecValue(SubSeq(s, 1, Len(s) - 1)) + DigitVal(s[Len(s)])

\* str::parse for an unsigned integer type with the given maximum: decimal
\* digits, with an optional leading '+'
parse_unsigned(s, max) ==
    LET t == IF s # <<>> /\ s[1] = "+" THEN Tail(s) ELSE s
    IN IF IsDigits(t) /\ Len(t) <= MaxDigits /\ DecValue(t) <= max
       THEN SomeN(DecValue(t)) ELSE NoneN

parse_u8(s) == parse_unsigned(s, 255)
parse_u16(s) == parse_unsigned(s, 65535)
\* u32 and usize: every number of at most MaxDigits digits is in range
parse_u32(s) == parse_unsigned(s, 999999)
parse_usize(s) == parse_unsigned(s, 999999)

\* str::parse::<i32>: an optional sign and decimal digits
parse_i32(s) ==
    LET neg == s # <<>> /\ s[1] = "-"
        t == IF s # <<>> /\ s[1] \in {"+", "-"} THEN Tail(s) ELSE s
    IN IF IsDigits(t) /\ Len(t) <= MaxDigits
       THEN SomeN(IF neg THEN 0 - DecValue(t) ELSE DecValue(t)) ELSE NoneN

\* u16::from_str_radix(s, 16)
HexDigits == <<"0","1","2","3","4","5","6","7","8","9","a","b","c","d","e","f">>

IsHexChar(c) == \E i \in 1..16 : HexDigits[i] = c \/ to_uppercase(<<HexDigits[i]>>)[1] = c

HexVal(c) ==
    (CHOOSE i \in 1..16 : HexDigits[i] = c \/ to_uppercase(<<HexDigits[i]>>)[1] = c) - 1

RECURSIVE HexValue(_)
HexValue(s) == IF s = <<>> THEN 0 ELSE 16 * HexValue(SubSeq(s, 1, Len(s) - 1)) + HexVal(s[Len(s)])

\* the parse of a number of base 16 that stops at the largest i16
from_str_radix_16_i16(s) ==
    LET t == IF s # <<>> /\ s[1] = "+" THEN Tail(s) ELSE s
    IN IF t # <<>> /\ (\A i \in 1..Len(t) : IsHexChar(t[i])) /\ Len(t) <= MaxDigits
          /\ HexValue(t) <= 32767
       THEN SomeN(HexValue(t)) ELSE NoneN

from_str_radix_16_u16(s) ==
    LET t == IF s # <<>> /\ s[1] = "+" THEN Tail(s) ELSE s
    IN IF t # <<>> /\ (\A i \in 1..Len(t) : IsHexChar(t[i])) /\ Len(t) <= MaxDigits
          /\ HexValue(t) <= 65535
       THEN SomeN(HexValue(t)) ELSE NoneN

\* i32::MAX and i32::MIN
I32Max == 2147483647
I32Min == (0 - 2147483647) - 1

\* an f64 of the model: the value i + f / 10000, i being its floor (inside
\* the i32 range) and f a number of ten-thousandths, or any value above that
\* range (big = 1) or below it (big = -1)
F64(i, f) == [big |-> 0, i |-> i, f |-> f]
F64Above == [big |-> 1, i |-> 0, f |-> 0]
F64Below == [big |-> 0 - 1, i |-> 0, f |-> 0]

\* Option<f64>::None
NoneF == [some |-> FALSE, val |-> F64(0, 0)]

\* the digits of a whole number without its leading zeros
RECURSIVE StripZeros(_)
StripZeros(s) == IF s # <<>> /\ Head(s) = "0" THEN StripZeros(Tail(s)) ELSE s

\* s < t for two texts of digits of the same length
RECURSIVE LexLess(_, _)
LexLess(s, t) ==
    IF s = <<>> THEN FALSE
    ELSE IF Head(s) # Head(t) THEN DigitVal(Head(s)) < DigitVal(Head(t))
    ELSE LexLess(Tail(s), Tail(t))

\* whether the whole number written by the digits s is greater than i32::MAX
AboveI32(s) ==
    LET z == StripZeros(s)
    IN Len(z) > 10 \/ (Len(z) = 10 /\ LexLess(<<"2","1","4","7","4","8","3","6","4","7">>, z))

\* the first four digits of a fraction, as a number of ten-thousandths
FracValue(s) ==
    LET d(i) == IF i <= Len(s) THEN DigitVal(s[i]) ELSE 0
    IN 1000 * d(1) + 100 * d(2) + 10 * d(3) + d(4)

\* str::parse::<f64> on the texts of the model: an optional sign, digits and
\* an optional fraction
parse_f64(s) ==
    LET neg == s # <<>> /\ s[1] = "-"
        t == IF s # <<>> /\ s[1] \in {"+", "-"} THEN Tail(s) ELSE s
        dots == {i \in 1..Len(t) : t[i] = "."}
        dot == IF dots = {} THEN Len(t) + 1 ELSE CHOOSE i \in dots : TRUE
        ip == SubSeq(t, 1, dot - 1)
        fp == SubSeq(t, dot + 1, Len(t))
        okay == /\ Cardinality(dots) <= 1
                /\ ip \o fp # <<>>
                /\ \A i \in 1..Len(ip) : ip[i] \in DigitSet
                /\ \A i \in 1..Len(fp) : fp[i] \in DigitSet
        f == FracValue(fp)
        mag == DecValue(StripZeros(ip))
    IN IF ~okay THEN NoneF
       ELSE IF AboveI32(ip)
       THEN IF neg /\ f = 0 /\ StripZeros(ip) = <<"2","1","4","7","4","8","3","6","4","8">>
            THEN [some |-> TRUE, val |-> F64(I32Min, 0)]
            ELSE [some |-> TRUE, val |-> IF neg THEN F64Below ELSE F64Above]
       ELSE IF ~neg THEN [some |-> TRUE, val |-> F64(mag, f)]
       ELSE IF f = 0 THEN [some |-> TRUE, val |-> F64(0 - mag, 0)]
       ELSE [some |-> TRUE, val |-> F64((0 - mag) - 1, 10000 - f)]

\* a + b on f64: the sum of two values inside the i32 range, which is a
\* value above or below the range when the whole part leaves it
f64_add(a, b) ==
    IF a.big # 0 THEN a
    ELSE IF b.big # 0 THEN b
    ELSE LET carry == IF a.f + b.f >= 10000 THEN 1 ELSE 0
             f == (a.f + b.f) % 10000
         IN IF a.i >= 0 /\ b.i >= 0 /\ a.i > (I32Max - b.i) - carry THEN F64Above
            ELSE IF a.i < 0 /\ b.i < 0 /\ a.i < (I32Min - b.i) - carry THEN F64Below
            ELSE F64(a.i + b.i + carry, f)

\* a - b on f64, for two values inside the i32 range
f64_sub(a, b) ==
    LET borrow == IF a.f < b.f THEN 1 ELSE 0
        f == (a.f + 10000 - b.f) % 10000
    IN IF a.i >= 0 /\ b.i < 0 /\ a.i > (I32Max + b.i) + borrow THEN F64Above
       ELSE IF a.i < 0 /\ b.i >= 0 /\ a.i < (I32Min + b.i) + borrow THEN F64Below
       ELSE F64((a.i - b.i) - borrow, f)

\* x as i32: the value truncated toward zero, saturating at the bounds
as_i32(x) ==
    IF x.big = 1 THEN I32Max
    ELSE IF x.big = 0 - 1 THEN I32Min
    ELSE IF x.i < 0 /\ x.f > 0 THEN x.i + 1
    ELSE x.i

\* one fallible conversion of a parser: the value, and the error returned
\* by `?` when the conversion fails
Conv(opt, kind, text) == [ok |-> opt.some, val |-> opt.val, err |-> TextError(kind, text)]

\* the error of the first failing conversion, conversions being listed in
\* the order the parser evaluates them
AllOk(cs) == \A i \in 1..Len(cs) : cs[i].ok

FirstErr(cs) == cs[CHOOSE i \in 1..Len(cs) : ~cs[i].ok /\ \A j \in 1..(i - 1) : cs[j].ok].err

-----------------------------------------------------------------------------
(* The enumerations and value types of enums.rs, structs.rs and util.rs,   *)
(* which the parsers call.  Each is a conversion from a short code.        *)

\* AtcRating::from_str: the rating codes 1..12
AtcRating_from_str(s) ==
    LET n == parse_u8(s)
    IN Conv(IF n.some /\ n.val \in 1..12 THEN n ELSE NoneN, "InvalidRating", s)

\* PilotRating::from_str
PilotRating_from_str(s) ==
    LET n == parse_u8(s)
    IN Conv(IF n.some /\ n.val \in {0, 1, 3, 7, 15, 31, 63} THEN n ELSE NoneN,
            "InvalidRating", s)

\* ProtocolRevision::from_str
ProtocolRevision_from_str(s) ==
    LET n == parse_u8(s)
    IN Conv(IF n.some /\ n.val \in {9, 10, 100, 101} THEN n ELSE NoneN,
            "InvalidProtocolRevision", s)

\* AtcType::from_str: the facility codes 0..6
AtcType_from_str(s) ==
    LET n == parse_u8(s)
    IN Conv(IF n.some /\ n.val \in 0..6 THEN n ELSE NoneN, "InvalidAtcType", s)

\* TransponderMode::from_str: S (standby), N (mode C), Y (ident); the value
\* is kept as 0, 1, 2
TransponderMode_from_str(s) ==
    Conv(IF s = <<"S">> THEN SomeN(0)
         ELSE IF s = <<"N">> THEN SomeN(1)
         ELSE IF s = <<"Y">> THEN SomeN(2) ELSE NoneN,
         "InvalidTransponderMode", s)

\* TransponderCode::from_str: up to four digits, each 0..7
TransponderCode_from_str(s) ==
    Conv(IF IsDigits(s) /\ Len(s) <= 4 /\ (\A i \in 1..Len(s) : DigitVal(s[i]) <= 7)
         THEN SomeN(DecValue(s)) ELSE NoneN,
         "InvalidTransponderCode", s)

-----------------------------------------------------------------------------
(* Registration.                                                           *)

\* AtcRegisterMessage::new
AtcRegisterMessage_new(from, to, real_name, cid, password, rating, protocol) ==
    [kind |-> "AtcRegisterMessage",
     from |-> to_uppercase(from), to |-> to_uppercase(to),
     real_name |-> real_name, cid |-> cid, password |-> password,
     rating |-> rating, protocol |-> protocol]

\* TryFrom<&[&str]> for AtcRegisterMessage
AtcRegisterMessage_try_from(fs) ==
    IF check_min_num_fields(fs, 7) # Continue THEN check_min_num_fields(fs, 7)
    ELSE LET first == Strip(F(fs, 0), 3)
             rating == AtcRating_from_str(F(fs, 5))
             protocol == ProtocolRevision_from_str(
                             IF InRange(fs, 6) THEN F(fs, 6) ELSE <<"9">>)
             cs == <<rating, protocol>>
         IN IF ~AllOk(cs) THEN Err(FirstErr(cs))
            ELSE Ok(AtcRegisterMessage_new(first, F(fs, 1), F(fs, 2), F(fs, 3),
                                           F(fs, 4), rating.val, protocol.val))

\* PilotRegisterMessage::new
PilotRegisterMessage_new(from, to, real_name, cid, password, rating, protocol, simulator_type) ==
    [kind |-> "PilotRegisterMessage",
     from |-> to_uppercase(from), to |-> to_uppercase(to),
     simulator_type |-> simulator_type, cid |-> cid, password |-> password,
     rating |-> rating, protocol |-> protocol, real_name |-> real_name]

\* TryFrom<&[&str]> for PilotRegisterMessage (fields[6].into() keeps the
\* simulator type as its text)
PilotRegisterMessage_try_from(fs) ==
    IF check_min_num_fields(fs, 7) # Continue THEN check_min_num_fields(fs, 7)
    ELSE LET first == Strip(F(fs, 0), 3)
             real_name == IF InRange(fs, 7) THEN F(fs, 7) ELSE <<>>
             rating == PilotRating_from_str(F(fs, 4))
             protocol == ProtocolRevision_from_str(F(fs, 5))
             cs == <<rating, protocol>>
         IN IF ~AllOk(cs) THEN Err(FirstErr(cs))
            ELSE Ok(PilotRegisterMessage_new(first, F(fs, 1), real_name, F(fs, 2),
                                             F(fs, 3), rating.val, protocol.val,
                                             F(fs, 6)))

-----------------------------------------------------------------------------
(* Position updates.  A list of frequencies is kept in its grouped wire    *)
(* form and an attitude as the packed integer: util::split_frequencies and *)
(* util::decode_pitch_bank_heading cannot fail.                            *)

\* AtcPositionUpdateMessage::new
AtcPositionUpdateMessage_new(callsign, frequencies, atc_type, vis_range, rating, latitude, longitude, elevation) ==
    [kind |-> "AtcPositionUpdateMessage", callsign |-> to_uppercase(callsign),
     frequencies |-> frequencies, atc_type |-> atc_type, vis_range |-> vis_range,
     rating |-> rating, latitude |-> latitude, longitude |-> longitude,
     elevation |-> elevation]

\* a parser of the ATC position update that refuses an elevation it cannot
\* convert, as it refuses its other fields
AtcPositionUpdateMessage_try_from_strict(fs) ==
    IF check_min_num_fields(fs, 7) # Continue THEN check_min_num_fields(fs, 7)
    ELSE LET first == Strip(F(fs, 0), 1)
             atc_type == AtcType_from_str(F(fs, 2))
             vis_range == Conv(parse_u32(F(fs, 3)), "InvalidVisRange", F(fs, 3))
             rating == AtcRating_from_str(F(fs, 4))
             latitude == Conv(parse_f64(F(fs, 5)), "InvalidCoordinate", F(fs, 5))
             longitude == Conv(parse_f64(F(fs, 6)), "InvalidCoordinate", F(fs, 6))
             elev == IF InRange(fs, 7) THEN F(fs, 7) ELSE <<"0">>
             elevation == Conv(parse_i32(elev), "InvalidAltitude", elev)
             cs == <<atc_type, vis_range, rating, latitude, longitude, elevation>>
         IN IF ~AllOk(cs) THEN Err(FirstErr(cs))
            ELSE Ok(AtcPositionUpdateMessage_new(first, F(fs, 1), atc_type.val,
                        vis_range.val, rating.val, latitude.val, longitude.val,
                        elevation.val))

\* TryFrom<&[&str]> for AtcPositionUpdateMessage
AtcPositionUpdateMessage_try_from(fs) ==
    IF check_min_num_fields(fs, 7) # Continue THEN check_min_num_fields(fs, 7)
    ELSE LET first == Strip(F(fs, 0), 1)
             atc_type == AtcType_from_str(F(fs, 2))
             vis_range == Conv(parse_u32(F(fs, 3)), "InvalidVisRange", F(fs, 3))
             rating == AtcRating_from_str(F(fs, 4))
             latitude == Conv(parse_f64(F(fs, 5)), "InvalidCoordinate", F(fs, 5))
             longitude == Conv(parse_f64(F(fs, 6)), "InvalidCoordinate", F(fs, 6))
             elev == parse_i32(IF InRange(fs, 7) THEN F(fs, 7) ELSE <<"0">>)
             elevation == IF elev.some THEN elev.val ELSE 0
             cs == <<atc_type, vis_range, rating, latitude, longitude>>
         IN IF ~AllOk(cs) THEN Err(FirstErr(cs))
            ELSE Ok(AtcPositionUpdateMessage_new(first, F(fs, 1), atc_type.val,
                        vis_range.val, rating.val, latitude.val, longitude.val,
                        elevation))

\* AtcSecondaryVisCentreMessage::new
AtcSecondaryVisCentreMessage_new(callsign, index, latitude, longitude) ==
    [kind |-> "AtcSecondaryVisCentreMessage", callsign |-> to_uppercase(callsign),
     index |-> index, latitude |-> latitude, longitude |-> longitude]

\* TryFrom<&[&str]> for AtcSecondaryVisCentreMessage: the error closures of
\* the latitude and of the longitude read fields[5]
AtcSecondaryVisCentreMessage_try_from(fs) ==
    IF check_min_num_fields(fs, 4) # Continue THEN check_min_num_fields(fs, 4)
    ELSE LET first == Strip(F(fs, 0), 1)
             index == Conv(parse_usize(F(fs, 1)), "InvalidIndex", F(fs, 1))
             latitude == parse_f64(F(fs, 2))
             longitude == parse_f64(F(fs, 3))
         IN IF ~index.ok THEN Err(index.err)
            ELSE IF ~latitude.some \/ ~longitude.some
            THEN IF InRange(fs, 5) THEN Err(TextError("InvalidCoordinate", F(fs, 5)))
                 ELSE Panic
            ELSE Ok(AtcSecondaryVisCentreMessage_new(first, index.val, latitude.val,
                                                     longitude.val))

\* PilotPositionUpdateMessage::new
PilotPositionUpdateMessage_new(callsign, transponder_mode, transponder_code, rating, latitude, longitude, true_altitude, pressure_altitude, ground_speed, pbh) ==
    [kind |-> "PilotPositionUpdateMessage", callsign |-> to_uppercase(callsign),
     transponder_mode |-> transponder_mode, transponder_code |-> transponder_code,
     rating |-> rating, latitude |-> latitude, longitude |-> longitude,
     true_altitude |-> true_altitude, pressure_altitude |-> pressure_altitude,
     ground_speed |-> ground_speed, pbh |-> pbh]

\* TryFrom<&[&str]> for PilotPositionUpdateMessage
PilotPositionUpdateMessage_try_from(fs) ==
    IF check_min_num_fields(fs, 10) # Continue THEN check_min_num_fields(fs, 10)
    ELSE LET first == Strip(F(fs, 0), 1)
             true_altitude == Conv(parse_f64(F(fs, 6)), "InvalidAltitude", F(fs, 6))
             alt_diff == Conv(parse_f64(F(fs, 9)), "InvalidAltitudeDifference", F(fs, 9))
             pbh == Conv(parse_u32(F(fs, 8)), "InvalidPitchBankHeading", F(fs, 8))
             mode == TransponderMode_from_str(first)
             code == TransponderCode_from_str(F(fs, 2))
             rating == PilotRating_from_str(F(fs, 3))
             latitude == Conv(parse_f64(F(fs, 4)), "InvalidCoordinate", F(fs, 4))
             longitude == Conv(parse_f64(F(fs, 5)), "InvalidCoordinate", F(fs, 5))
             ground_speed == Conv(parse_u32(F(fs, 7)), "InvalidSpeed", F(fs, 7))
             cs == <<true_altitude, alt_diff, pbh, mode, code, rating, latitude,
                     longitude, ground_speed>>
         IN IF ~AllOk(cs) THEN Err(FirstErr(cs))
            ELSE Ok(PilotPositionUpdateMessage_new(F(fs, 1), mode.val, code.val,
                        rating.val, latitude.val, longitude.val, true_altitude.val,
                        f64_add(true_altitude.val, alt_diff.val), ground_speed.val, pbh.val))

\* FrequencyMessage::new
FrequencyMessage_new(from, to, message) ==
    [kind |-> "FrequencyMessage", from |-> to_uppercase(from), to |-> to,
     message |-> message]

\* TryFrom<&[&str]> for FrequencyMessage
FrequencyMessage_try_from(fs) ==
    IF check_min_num_fields(fs, 3) # Continue THEN check_min_num_fields(fs, 3)
    ELSE LET first == Strip(F(fs, 0), 3)
             message == IF Len(fs) > 3 THEN push_rest(F(fs, 2), From(fs, 3))
                        ELSE F(fs, 2)
         IN Ok(FrequencyMessage_new(first, F(fs, 1), message))

-----------------------------------------------------------------------------
(* Numbers to text.                                                        *)

\* Display of an unsigned integer
RECURSIVE DecText(_)
DecText(n) == IF n < 10 THEN <<Digits[n + 1]>> ELSE DecText(n \div 10) \o <<Digits[(n % 10) + 1]>>

\* {:x}
RECURSIVE HexText(_)
HexText(n) ==
    IF n < 16 THEN <<HexDigits[n + 1]>>
    ELSE HexText(n \div 16) \o <<HexDigits[(n % 16) + 1]>>

\* the zero padding of {:0w}
RECURSIVE ZeroPad(_, _)
ZeroPad(s, w) == IF Len(s) >= w THEN s ELSE ZeroPad(<<"0">> \o s, w)

\* Display of an i32
RECURSIVE NegDecText(_)
NegDecText(n) ==
    LET d == (10 - (n % 10)) % 10
    IN IF n > 0 - 10 THEN <<Digits[(0 - n) + 1]>>
       ELSE NegDecText((n + d) \div 10) \o <<Digits[d + 1]>>

I32Text(n) == IF n >= 0 THEN DecText(n) ELSE <<"-">> \o NegDecText(n)

\* {:.d} of an f64 inside the i32 range, for d = 2 and for d >= 4; the
\* fractions of the model have four decimals, which two decimals round to
\* the nearest, a tie to the even neighbour
Fixed(x, d) ==
    LET neg == x.i < 0
        whole == IF ~neg THEN x.i ELSE IF x.f = 0 THEN 0 - x.i ELSE (0 - x.i) - 1
        fr == IF neg /\ x.f > 0 THEN 10000 - x.f ELSE x.f
        q == fr \div 100
        r == fr % 100
        up == IF r > 50 \/ (r = 50 /\ q % 2 = 1) THEN 1 ELSE 0
        sign == IF neg THEN <<"-">> ELSE <<>>
    IN IF d = 2
       THEN IF q + up = 100 THEN sign \o DecText(whole + 1) \o <<".","0","0">>
            ELSE sign \o DecText(whole) \o <<".">> \o ZeroPad(DecText(q + up), 2)
       ELSE sign \o DecText(whole) \o <<".">> \o ZeroPad(DecText(fr), 4) \o [k \in 1..(d - 4) |-> "0"]

-----------------------------------------------------------------------------
(* The text of a pilot position update.                                    *)

\* Display for TransponderMode: the code from_str reads
TransponderMode_fmt(mode) ==
    IF mode = 0 THEN <<"S">> ELSE IF mode = 1 THEN <<"N">> ELSE <<"Y">>

\* Display for TransponderCode: four decimal digits
TransponderCode_fmt(code) == ZeroPad(DecText(code), 4)

\* util::encode_pitch_bank_heading on the angles the message holds, which the
\* model keeps as the packed integer they were decoded from
encode_pitch_bank_heading(pbh) == DecText(pbh)

\* Display for PilotPositionUpdateMessage
PilotPositionUpdateMessage_fmt(m) ==
    LET pbh == encode_pitch_bank_heading(m.pbh)
        alt_diff == f64_sub(m.pressure_altitude, m.true_altitude)
    IN Cat(<< <<"@">>, TransponderMode_fmt(m.transponder_mode), <<":">>, m.callsign,
              <<":">>, TransponderCode_fmt(m.transponder_code), <<":">>,
              DecText(m.rating), <<":">>, Fixed(m.latitude, 5), <<":">>,
              Fixed(m.longitude, 5), <<":">>, I32Text(as_i32(m.true_altitude)),
              <<":">>, DecText(m.ground_speed), <<":">>, pbh, <<":">>,
              I32Text(as_i32(alt_diff)) >>)

-----------------------------------------------------------------------------
(* Handshake of the client.                                                *)

\* InitialClientHandshakeMessage::new (initial_key: Option)
InitialClientHandshakeMessage_new(from, to, client_id, client_name, major_version, minor_version, cid, guid, initial_key) ==
    [kind |-> "InitialClientHandshakeMessage",
     from |-> to_uppercase(from), to |-> to_uppercase(to), client_id |-> client_id,
     client_name |-> client_name, major_version |-> major_version,
     minor_version |-> minor_version, cid |-> cid, guid |-> guid,
     initial_key |-> initial_key]

\* Display for InitialClientHandshakeMessage
InitialClientHandshakeMessage_fmt(m) ==
    LET message == Cat(<< <<"$","I","D">>, m.from, <<":">>, m.to, <<":">>,
                          ZeroPad(HexText(m.client_id), 4), <<":">>, m.client_name,
                          <<":">>, DecText(m.major_version), <<":">>,
                          DecText(m.minor_version), <<":">>, m.cid, <<":">>, m.guid >>)
    IN IF m.initial_key.some THEN message \o <<":">> \o m.initial_key.val
       ELSE message

\* TryFrom<&[&str]> for InitialClientHandshakeMessage
InitialClientHandshakeMessage_try_from(fs) ==
    IF check_min_num_fields(fs, 8) # Continue THEN check_min_num_fields(fs, 8)
    ELSE LET first == Strip(F(fs, 0), 3)
             client_id == Conv(from_str_radix_16_u16(F(fs, 2)), "InvalidClientID", F(fs, 2))
             major == Conv(parse_u32(F(fs, 4)), "InvalidVersionNumber", F(fs, 4))
             minor == Conv(parse_u32(F(fs, 5)), "InvalidVersionNumber", F(fs, 5))
             cs == <<client_id, major, minor>>
         IN IF ~AllOk(cs) THEN Err(FirstErr(cs))
            ELSE Ok(InitialClientHandshakeMessage_new(first, F(fs, 1), client_id.val,
                        F(fs, 3), major.val, minor.val, F(fs, 6), F(fs, 7),
                        get(fs, 8)))

-----------------------------------------------------------------------------
(* Velocity updates.                                                       *)

\* VelocityPositionStoppedMessage::new
VelocityPositionStoppedMessage_new(from, latitude, longitude, true_altitude, altitude_agl, pbh, nose_gear_angle) ==
    [kind |-> "VelocityPositionStoppedMessage", from |-> to_uppercase(from),
     latitude |-> latitude, longitude |-> longitude,
     true_altitude |-> true_altitude, altitude_agl |-> altitude_agl, pbh |-> pbh,
     nose_gear_angle |-> nose_gear_angle]

\* the optional nose gear angle of the velocity updates, fields.get(i)
nose_gear(fs, i) ==
    IF InRange(fs, i)
    THEN LET nga == parse_f64(F(fs, i))
         IN [ok |-> nga.some, val |-> nga,
             err |-> TextError("InvalidNosewheelAngle", F(fs, i))]
    ELSE [ok |-> TRUE, val |-> NoneF, err |-> NoErr]

\* TryFrom<&[&str]> for VelocityPositionStoppedMessage
VelocityPositionStoppedMessage_try_from(fs) ==
    IF check_min_num_fields(fs, 6) # Continue THEN check_min_num_fields(fs, 6)
    ELSE LET first == Strip(F(fs, 0), 3)
             pbh == Conv(parse_u32(F(fs, 5)), "InvalidPitchBankHeading", F(fs, 5))
             nga == nose_gear(fs, 6)
             latitude == Conv(parse_f64(F(fs, 1)), "InvalidCoordinate", F(fs, 1))
             longitude == Conv(parse_f64(F(fs, 2)), "InvalidCoordinate", F(fs, 2))
             true_altitude == Conv(parse_f64(F(fs, 3)), "InvalidAltitude", F(fs, 3))
             altitude_agl == Conv(parse_f64(F(fs, 4)), "InvalidAltitude", F(fs, 4))
             cs == <<pbh, nga, latitude, longitude, true_altitude, altitude_agl>>
         IN IF ~AllOk(cs) THEN Err(FirstErr(cs))
            ELSE Ok(VelocityPositionStoppedMessage_new(first, latitude.val,
                        longitude.val, true_altitude.val, altitude_agl.val, pbh.val,
                        nga.val))

\* the conversions shared by the slow and the fast parser, in their order
velocity_conversions(fs) ==
    LET rate(i) == Conv(parse_f64(F(fs, i)), "InvalidPositionVelocity", F(fs, i))
    IN << Conv(parse_u32(F(fs, 5)), "InvalidPitchBankHeading", F(fs, 5)),
          nose_gear(fs, 12),
          Conv(parse_f64(F(fs, 1)), "InvalidCoordinate", F(fs, 1)),
          Conv(parse_f64(F(fs, 2)), "InvalidCoordinate", F(fs, 2)),
          Conv(parse_f64(F(fs, 3)), "InvalidAltitude", F(fs, 3)),
          Conv(parse_f64(F(fs, 4)), "InvalidAltitude", F(fs, 4)),
          rate(6), rate(7), rate(8), rate(9), rate(10), rate(11) >>

\* the payload shared by the slow and the fast message
velocity_payload(k, from, cs) ==
    [kind |-> k, from |-> to_uppercase(from),
     latitude |-> cs[3].val, longitude |-> cs[4].val,
     true_altitude |-> cs[5].val, altitude_agl |-> cs[6].val, pbh |-> cs[1].val,
     x_velocity |-> cs[7].val, y_velocity |-> cs[8].val, z_velocity |-> cs[9].val,
     pitch_rad_per_sec |-> cs[10].val, heading_rad_per_sec |-> cs[11].val,
     bank_rad_per_sec |-> cs[12].val, nose_gear_angle |-> cs[2].val]

\* TryFrom<&[&str]> for VelocityPositionSlowMessage
VelocityPositionSlowMessage_try_from(fs) ==
    IF check_min_num_fields(fs, 12) # Continue THEN check_min_num_fields(fs, 12)
    ELSE LET first == Strip(F(fs, 0), 3)
             cs == velocity_conversions(fs)
         IN IF ~AllOk(cs) THEN Err(FirstErr(cs))
            ELSE Ok(velocity_payload("VelocityPositionSlowMessage", first, cs))

\* TryFrom<&[&str]> for VelocityPositionFastMessage
VelocityPositionFastMessage_try_from(fs) ==
    IF check_min_num_fields(fs, 12) # Continue THEN check_min_num_fields(fs, 12)
    ELSE LET first == Strip(F(fs, 0), 1)
             cs == velocity_conversions(fs)
         IN IF ~AllOk(cs) THEN Err(FirstErr(cs))
            ELSE Ok(velocity_payload("VelocityPositionFastMessage", first, cs))

\* the fields the slow and the fast message write behind their marker and
\* sender, the optional nose gear angle last
velocity_text(m) ==
    LET message == Cat(<< <<":">>, Fixed(m.latitude, 7), <<":">>, Fixed(m.longitude, 7),
                          <<":">>, Fixed(m.true_altitude, 2), <<":">>,
                          Fixed(m.altitude_agl, 2), <<":">>,
                          encode_pitch_bank_heading(m.pbh), <<":">>,
                          Fixed(m.x_velocity, 4), <<":">>, Fixed(m.y_velocity, 4),
                          <<":">>, Fixed(m.z_velocity, 4), <<":">>,
                          Fixed(m.pitch_rad_per_sec, 4), <<":">>,
                          Fixed(m.heading_rad_per_sec, 4), <<":">>,
                          Fixed(m.bank_rad_per_sec, 4) >>)
    IN IF m.nose_gear_angle.some
       THEN message \o <<":">> \o Fixed(m.nose_gear_angle.val, 2)
       ELSE message

\* Display for VelocityPositionSlowMessage
VelocityPositionSlowMessage_fmt(m) == <<"#","S","L">> \o m.from \o velocity_text(m)

\* Display for VelocityPositionFastMessage
VelocityPositionFastMessage_fmt(m) == <<"^">> \o m.from \o velocity_text(m)

\* the conversion with the rates of heading and of bank exchanged
VelocityPositionFastMessage_from_rates_exchanged(value) ==
    [kind |-> "VelocityPositionFastMessage", from |-> value.from,
     latitude |-> value.latitude, longitude |-> value.longitude,
     true_altitude |-> value.true_altitude, altitude_agl |-> value.altitude_agl,
     pbh |-> value.pbh, x_velocity |-> value.x_velocity,
     y_velocity |-> value.y_velocity, z_velocity |-> value.z_velocity,
     pitch_rad_per_sec |-> value.pitch_rad_per_sec,
     heading_rad_per_sec |-> value.bank_rad_per_sec,
     bank_rad_per_sec |-> value.heading_rad_per_sec,
     nose_gear_angle |-> value.nose_gear_angle]

\* From<VelocityPositionSlowMessage> for VelocityPositionFastMessage
VelocityPositionFastMessage_from(value) ==
    [kind |-> "VelocityPositionFastMessage", from |-> value.from,
     latitude |-> value.latitude, longitude |-> value.longitude,
     true_altitude |-> value.true_altitude, altitude_agl |-> value.altitude_agl,
     pbh |-> value.pbh, x_velocity |-> value.x_velocity,
     y_velocity |-> value.y_velocity, z_velocity |-> value.z_velocity,
     pitch_rad_per_sec |-> value.pitch_rad_per_sec,
     heading_rad_per_sec |-> value.heading_rad_per_sec,
     bank_rad_per_sec |-> value.bank_rad_per_sec,
     nose_gear_angle |-> value.nose_gear_angle]

\* a slow message built from the public fields of a fast one with
\* VelocityPositionSlowMessage::new; no From is implemented in this direction
slow_of_fast(value) ==
    LET arg(x) == [ok |-> TRUE, val |-> x, err |-> NoErr]
    IN velocity_payload("VelocityPositionSlowMessage", value.from,
           << arg(value.pbh), arg(value.nose_gear_angle), arg(value.latitude),
              arg(value.longitude), arg(value.true_altitude), arg(value.altitude_agl),
              arg(value.x_velocity), arg(value.y_velocity), arg(value.z_velocity),
              arg(value.pitch_rad_per_sec), arg(value.heading_rad_per_sec),
              arg(value.bank_rad_per_sec) >>)

-----------------------------------------------------------------------------
(* Plane info response.                                                    *)

\* PlaneInfoResponseMessage::new
PlaneInfoResponseMessage_new(from, to, plane_info) ==
    [kind |-> "PlaneInfoResponseMessage",
     from |-> to_uppercase(from), to |-> to_uppercase(to), plane_info |-> plane_info]

\* the parser of the plane info response looking at the sub-type before it
\* counts the fields
PlaneInfoResponseMessage_try_from_subtype_first(fs) ==
    IF Len(fs) >= 4 /\ F(fs, 3) # <<"G","E","N">>
    THEN Err(TextError("UnknownMessageType", join(fs)))
    ELSE IF check_min_num_fields(fs, 5) # Continue THEN check_min_num_fields(fs, 5)
    ELSE Ok(PlaneInfoResponseMessage_new(Strip(F(fs, 0), 3), F(fs, 1), From(fs, 4)))

\* TryFrom<&[&str]> for PlaneInfoResponseMessage (PlaneInfo::from keeps the
\* fields fields[4..])
PlaneInfoResponseMessage_try_from(fs) ==
    IF check_min_num_fields(fs, 5) # Continue THEN check_min_num_fields(fs, 5)
    ELSE LET first == Strip(F(fs, 0), 3)
         IN IF F(fs, 3) # <<"G","E","N">>
            THEN Err(TextError("UnknownMessageType", join(fs)))
            ELSE Ok(PlaneInfoResponseMessage_new(first, F(fs, 1), From(fs, 4)))

-----------------------------------------------------------------------------
(* Server errors.  An FsdError is its kind and the string it carries.      *)

\* the match of FsdErrorMessage::try_from with the arms 8 and 9 exchanged
ErrorKindOfCode_swapped ==
    << "CallsignInUse", "InvalidCallsign", "AlreadyRegistered", "SyntaxError",
       "InvalidCallsign", "InvalidCidPassword", "NoSuchCallsign",
       "NoWeatherProfile", "NoFlightPlan", "InvalidProtocolRevision",
       "RequestedLevelTooHigh", "ServerFull", "CertificateSuspended",
       "InvalidControl", "InvalidPositionForRating", "UnauthorisedClient",
       "AuthTimeOut" >>

\* the match of FsdErrorMessage::try_from, codes 1..17
ErrorKindOfCode ==
    << "CallsignInUse", "InvalidCallsign", "AlreadyRegistered", "SyntaxError",
       "InvalidCallsign", "InvalidCidPassword", "NoSuchCallsign", "NoFlightPlan",
       "NoWeatherProfile", "InvalidProtocolRevision", "RequestedLevelTooHigh",
       "ServerFull", "CertificateSuspended", "InvalidControl",
       "InvalidPositionForRating", "UnauthorisedClient", "AuthTimeOut" >>

FsdError(k, t) == [kind |-> k, text |-> t]

\* FsdError::error_number: the code of the kind; Other has a code that the
\* parser maps to Other
error_number(e) ==
    IF e.kind = "Other" THEN 0
    ELSE CHOOSE c \in 1..17 : ErrorKindOfCode[c] = e.kind
                              /\ \A d \in 1..(c - 1) : ErrorKindOfCode[d] # e.kind

\* FsdErrorMessage::new
FsdErrorMessage_new(from, to, error_type) ==
    [kind |-> "FsdErrorMessage",
     from |-> to_uppercase(from), to |-> to_uppercase(to), error_type |-> error_type]

\* Display for FsdErrorMessage
FsdErrorMessage_fmt(m) ==
    IF m.error_type.kind = "Other"
    THEN Cat(<< <<"$","E","R">>, m.from, <<":">>, m.to, <<":">>,
                ZeroPad(DecText(error_number(m.error_type)), 3), <<":">>, <<":">>,
                m.error_type.text >>)
    ELSE Cat(<< <<"$","E","R">>, m.from, <<":">>, m.to, <<":">>,
                ZeroPad(DecText(error_number(m.error_type)), 3), <<":">>, <<":">> >>)

\* TryFrom<&[&str]> for FsdErrorMessage
FsdErrorMessage_try_from(fs) ==
    IF check_min_num_fields(fs, 5) # Continue THEN check_min_num_fields(fs, 5)
    ELSE LET first == Strip(F(fs, 0), 3)
             code == parse_u8(F(fs, 2))
             error_type ==
                 IF code.val \in {7, 8, 9}
                 THEN FsdError(ErrorKindOfCode[code.val], to_uppercase(F(fs, 3)))
                 ELSE IF code.val \in 1..17
                 THEN FsdError(ErrorKindOfCode[code.val], <<>>)
                 ELSE FsdError("Other", F(fs, 4))
         IN IF ~code.some THEN Err(TextError("InvalidServerError", F(fs, 2)))
            ELSE Ok(FsdErrorMessage_new(first, F(fs, 1), error_type))

-----------------------------------------------------------------------------
(* Flight plans.  FlightPlan::try_from is a collaborator: whether it       *)
(* accepts its fields is the parameter fp_ok, and an accepted flight plan  *)
(* is kept as its fields.                                                  *)

FlightPlan_try_from(fs, fp_ok) ==
    [ok |-> fp_ok, val |-> fs, err |-> TextError("InvalidFlightPlan", join(fs))]

\* FlightPlanMessage::new
FlightPlanMessage_new(to, callsign, flight_plan) ==
    [kind |-> "FlightPlanMessage", to |-> to_uppercase(to),
     callsign |-> to_uppercase(callsign), flight_plan |-> flight_plan]

\* TryFrom<&[&str]> for FlightPlanMessage
FlightPlanMessage_try_from(fs, fp_ok) ==
    IF check_exact_num_fields(fs, 17) # Continue THEN check_exact_num_fields(fs, 17)
    ELSE LET first == Strip(F(fs, 0), 3)
             flight_plan == FlightPlan_try_from(From(fs, 2), fp_ok)
         IN IF ~flight_plan.ok THEN Err(flight_plan.err)
            ELSE Ok(FlightPlanMessage_new(F(fs, 1), first, flight_plan.val))

\* FlightPlanAmendmentMessage::new
FlightPlanAmendmentMessage_new(from, to, callsign, flight_plan) ==
    [kind |-> "FlightPlanAmendmentMessage",
     from |-> to_uppercase(from), to |-> to_uppercase(to),
     callsign |-> to_uppercase(callsign), flight_plan |-> flight_plan]

\* TryFrom<&[&str]> for FlightPlanAmendmentMessage
FlightPlanAmendmentMessage_try_from(fs, fp_ok) ==
    IF check_exact_num_fields(fs, 18) # Continue THEN check_exact_num_fields(fs, 18)
    ELSE LET first == Strip(F(fs, 0), 3)
             flight_plan == FlightPlan_try_from(From(fs, 3), fp_ok)
         IN IF ~flight_plan.ok THEN Err(flight_plan.err)
            ELSE Ok(FlightPlanAmendmentMessage_new(first, F(fs, 1), F(fs, 2),
                                                   flight_plan.val))

-----------------------------------------------------------------------------
(* Client queries.  The value types ScratchPad, Level, VoiceCapability,    *)
(* AircraftConfig, RadioFrequency, the ATIS summary of util::parse_new_atis *)
(* and chrono's date are collaborators: whether the one a sub-type calls   *)
(* accepts its text is the parameter c_ok, and an accepted value is kept   *)
(* as its text.                                                            *)

collaborator(s, c_ok, kind) == [ok |-> c_ok, val |-> s, err |-> TextError(kind, s)]

\* str::contains
contains(s, sub) ==
    \E i \in 0..(Len(s) - Len(sub)) : SubSeq(s, i + 1, i + Len(sub)) = sub

\* TransponderCode::try_from_bcd_format: the text is a decimal number whose
\* four hexadecimal digits are the digits of the code, each 0..7
try_from_bcd_format(s) ==
    LET n == parse_u16(s)
        d(k) == (n.val \div (16 ^ k)) % 16
    IN Conv(IF n.some /\ \A k \in 0..3 : d(k) <= 7
            THEN SomeN(1000 * d(3) + 100 * d(2) + 10 * d(1) + d(0)) ELSE NoneN,
            "InvalidTransponderCode", s)

\* ClientQueryMessage::new
ClientQueryMessage_new(from, to, query_type) ==
    [kind |-> "ClientQueryMessage",
     from |-> to_uppercase(from), to |-> to_uppercase(to), query_type |-> query_type]

\* a query type with an aircraft callsign and a value
callsign_value(t, aircraft_callsign, value) ==
    [t |-> t, aircraft_callsign |-> aircraft_callsign, value |-> value]

\* the last character of NEWINFO's field, as an upper-case ASCII letter
newinfo_letter(s) ==
    IF s = <<>> THEN NoneN
    ELSE LET c == UpperChar(s[Len(s)])
         IN IF \E i \in 1..26 : UpperLetters[i] = c THEN SomeN(c) ELSE NoneN

\* the arms without an argument, with the text "ab" taken as one of them
SimpleQueries_accepting_ab ==
    { <<"C","?">>, <<"I","P">>, <<"A","T","I","S">>, <<"R","N">>, <<"S","V">>,
      <<"B","Y">>, <<"C","A","P","S">>, <<"H","I">>, <<"I","N","F">>, <<"a","b">> }

\* the arms of ClientQueryMessage::try_from that take no argument
SimpleQueries ==
    { <<"C","?">>, <<"I","P">>, <<"A","T","I","S">>, <<"R","N">>, <<"S","V">>,
      <<"B","Y">>, <<"C","A","P","S">>, <<"H","I">>, <<"I","N","F">> }

\* the arms that read an aircraft callsign in fields[3] behind a count check
CallsignQueries == { <<"W","H">>, <<"D","R">>, <<"I","T">> }

\* the arms that read a callsign in fields[3] and a collaborator's value in
\* fields[4]
ValueQueries == { <<"S","C">>, <<"F","A">>, <<"V","T">>, <<"T","A">> }

\* the test of the IPC arm with the number 852 left unread
ipc_unknown_letter_only(remainder) == remainder[1] # <<"W">>

\* the test of the IPC arm on remainder = fields[3..6]: anything but W:852
ipc_unknown(remainder) ==
    remainder[1] # <<"W">> \/ remainder[2] # <<"8","5","2">>

\* TryFrom<&[&str]> for ClientQueryMessage
ClientQueryMessage_try_from(fs, c_ok) ==
    IF check_min_num_fields(fs, 3) # Continue THEN check_min_num_fields(fs, 3)
    ELSE LET first == Strip(F(fs, 0), 3)
             q == F(fs, 2)
             done(query_type) == Ok(ClientQueryMessage_new(first, F(fs, 1), query_type))
         IN
         IF q \in SimpleQueries THEN done([t |-> q])
         ELSE IF q = <<"I","P","C">> THEN
             IF Len(fs) < 6 THEN Err(InvalidFieldCount(6, 3))
             ELSE IF ipc_unknown(SubSeq(fs, 4, 6))
             THEN Err(TextError("UnknownMessageType",
                        Cat(<< <<"I","P","C",":">>, F(fs, 0), <<":">>, F(fs, 1),
                               <<":">>, F(fs, 2) >>)))
             ELSE LET code == try_from_bcd_format(F(fs, 5))
                  IN IF ~code.ok THEN Err(code.err)
                     ELSE done([t |-> q, code |-> code.val])
         ELSE IF q = <<"A","C","C">> THEN
             IF ~InRange(fs, 3) THEN Err(InvalidFieldCount(4, 3))
             ELSE IF contains(F(fs, 3), <<"r","e","q","u","e","s","t">>)
             THEN done([t |-> q, request |-> TRUE, aircraft_config |-> <<>>])
             ELSE LET config == collaborator(join(From(fs, 3)), c_ok, "InvalidAircraftConfig")
                  IN IF ~config.ok THEN Err(config.err)
                     ELSE done([t |-> q, request |-> FALSE, aircraft_config |-> config.val])
         ELSE IF q \in { <<"H","L","P">>, <<"N","O","H","L","P">> } THEN
             LET got == get(fs, 3)
                 message == IF got.some /\ got.val = <<>> THEN None ELSE got
             IN done([t |-> q, message |-> message])
         ELSE IF q \in ValueQueries THEN
             IF check_min_num_fields(fs, 5) # Continue THEN check_min_num_fields(fs, 5)
             ELSE LET value == collaborator(F(fs, 4), c_ok, "InvalidValue")
                  IN IF ~value.ok THEN Err(value.err)
                     ELSE done(callsign_value(q, to_uppercase(F(fs, 3)), value.val))
         ELSE IF q = <<"B","C">> THEN
             IF check_min_num_fields(fs, 5) # Continue THEN check_min_num_fields(fs, 5)
             ELSE LET code == TransponderCode_from_str(F(fs, 4))
                  IN IF ~code.ok THEN Err(code.err)
                     ELSE done([t |-> q, aircraft_callsign |-> to_uppercase(F(fs, 3)),
                                code |-> code.val])
         ELSE IF q = <<"A","T","C">> THEN
             done([t |-> q, atc_callsign |->
                      to_uppercase(IF InRange(fs, 3) THEN F(fs, 3) ELSE first)])
         ELSE IF q = <<"F","P">> THEN
             IF ~InRange(fs, 3) THEN Err(InvalidFieldCount(4, 3))
             ELSE done([t |-> q, aircraft_callsign |-> to_uppercase(F(fs, 3))])
         ELSE IF q = <<"N","E","W","A","T","I","S">> THEN
             IF check_min_num_fields(fs, 5) # Continue THEN check_min_num_fields(fs, 5)
             ELSE LET atis == collaborator(join(From(fs, 3)), c_ok, "InvalidNewAtis")
                  IN IF ~atis.ok THEN Err(atis.err)
                     ELSE done([t |-> q, atis |-> atis.val])
         ELSE IF q = <<"N","E","W","I","N","F","O">> THEN
             IF check_min_num_fields(fs, 4) # Continue THEN check_min_num_fields(fs, 4)
             ELSE LET atis_letter == newinfo_letter(F(fs, 3))
                  IN IF ~atis_letter.some
                     THEN Err(TextError("InvalidATISLine", join(fs)))
                     ELSE done([t |-> q, atis_letter |-> atis_letter.val])
         ELSE IF q \in CallsignQueries THEN
             IF check_min_num_fields(fs, 4) # Continue THEN check_min_num_fields(fs, 4)
             ELSE done([t |-> q, aircraft_callsign |-> to_uppercase(F(fs, 3))])
         ELSE IF q = <<"H","T">> THEN
             IF check_min_num_fields(fs, 5) # Continue THEN check_min_num_fields(fs, 5)
             ELSE done([t |-> q, aircraft_callsign |-> to_uppercase(F(fs, 3)),
                        atc_callsign |-> to_uppercase(F(fs, 4))])
         ELSE IF q = <<"S","I","M","T","I","M","E">> THEN
             IF check_min_num_fields(fs, 4) # Continue THEN check_min_num_fields(fs, 4)
             ELSE LET time == collaborator(F(fs, 3), c_ok, "InvalidTime")
                  IN IF ~time.ok THEN Err(time.err)
                     ELSE done([t |-> q, time |-> time.val])
         ELSE IF q = <<"G","D">> THEN
             IF check_min_num_fields(fs, 5) # Continue THEN check_min_num_fields(fs, 5)
             ELSE done(callsign_value(q, to_uppercase(F(fs, 4)), F(fs, 4)))
         ELSE Err(TextError("UnknownMessageType", F(fs, 2)))

-----------------------------------------------------------------------------
(* Responses to client queries.                                            *)

\* ClientQueryResponseMessage::new
ClientQueryResponseMessage_new(from, to, response_type) ==
    [kind |-> "ClientQueryResponseMessage",
     from |-> to_uppercase(from), to |-> to_uppercase(to),
     response_type |-> response_type]

\* str::ends_with('z') and the slice without the last byte
logoff_text(s) ==
    IF s # <<>> /\ s[Len(s)] = "z" THEN SubSeq(s, 1, Len(s) - 1) ELSE s

\* the "ATIS" arm of ClientQueryResponseMessage::try_from; the result is a
\* conversion whose value is the ATIS line
atis_line(fs) ==
    LET kind == F(fs, 3)
        line_count == parse_usize(F(fs, 4))
        valid(v) == [ok |-> TRUE, val |-> v, err |-> NoErr]
    IN IF kind = <<"V">> THEN valid([t |-> "VoiceServer", text |-> F(fs, 4), n |-> NoneN])
       ELSE IF kind = <<"T">>
       THEN valid([t |-> "TextLine", text |-> join(From(fs, 4)), n |-> NoneN])
       ELSE IF kind = <<"Z">>
       THEN valid([t |-> "LogoffTime", text |-> <<>>,
                   n |-> parse_u16(logoff_text(F(fs, 4)))])
       ELSE IF kind = <<"E">>
       THEN [ok |-> line_count.some,
             val |-> [t |-> "EndMarker", text |-> <<>>, n |-> line_count],
             err |-> TextError("InvalidATISLine", F(fs, 4))]
       ELSE [ok |-> FALSE, val |-> NoMsg, err |-> TextError("InvalidATISLine", F(fs, 3))]

\* TryFrom<&[&str]> for ClientQueryResponseMessage: the "RN" arm checks for
\* 4 fields and reads fields[4] and fields[5]
ClientQueryResponseMessage_try_from(fs, c_ok) ==
    IF check_min_num_fields(fs, 4) # Continue THEN check_min_num_fields(fs, 4)
    ELSE LET from == Strip(F(fs, 0), 3)
             to == F(fs, 1)
             r == F(fs, 2)
             done(response_type) ==
                 Ok(ClientQueryResponseMessage_new(from, to, response_type))
         IN
         IF r = <<"C","?">> THEN
             LET frequency == collaborator(F(fs, 3), c_ok, "InvalidFrequency")
             IN IF ~frequency.ok THEN Err(frequency.err)
                ELSE done([t |-> r, frequency |-> frequency.val])
         ELSE IF r = <<"A","T","I","S">> THEN
             IF check_min_num_fields(fs, 5) # Continue THEN check_min_num_fields(fs, 5)
             ELSE LET atis == atis_line(fs)
                  IN IF ~atis.ok THEN Err(atis.err)
                     ELSE done([t |-> r, atis_line |-> atis.val])
         ELSE IF r = <<"R","N">> THEN
             IF check_min_num_fields(fs, 4) # Continue THEN check_min_num_fields(fs, 4)
             ELSE IF ~InRange(fs, 4) \/ ~InRange(fs, 5) THEN Panic
             ELSE LET rating == Conv(parse_u8(F(fs, 5)), "InvalidRating", F(fs, 5))
                  IN IF ~rating.ok THEN Err(rating.err)
                     ELSE done([t |-> r, name |-> F(fs, 3), sector_file |-> F(fs, 4),
                                rating |-> rating.val])
         ELSE IF r = <<"I","P">> THEN
             IF ~InRange(fs, 3) THEN Err(InvalidFieldCount(4, Len(fs)))
             ELSE done([t |-> r, ip_address |-> F(fs, 3)])
         ELSE IF r = <<"S","V">> THEN
             IF ~InRange(fs, 3) THEN Err(InvalidFieldCount(4, Len(fs)))
             ELSE done([t |-> r, hostname_or_ip_address |-> F(fs, 3)])
         ELSE IF r = <<"A","T","C">> THEN
             IF check_min_num_fields(fs, 4) # Continue THEN check_min_num_fields(fs, 4)
             ELSE IF to_uppercase(F(fs, 3)) \notin { <<"Y">>, <<"N">> }
             THEN Err(TextError("InvalidValidAtcStatus", F(fs, 3)))
             ELSE done([t |-> r,
                        atc_callsign |->
                            to_uppercase(IF InRange(fs, 4) THEN F(fs, 4) ELSE F(fs, 1)),
                        valid_atc |-> to_uppercase(F(fs, 3)) = <<"Y">>])
         ELSE IF r = <<"C","A","P","S">> THEN
             IF check_min_num_fields(fs, 4) # Continue THEN check_min_num_fields(fs, 4)
             ELSE done([t |-> r, capabilities |-> From(fs, 3)])
         ELSE Err(TextError("UnknownMessageType", F(fs, 2)))

-----------------------------------------------------------------------------
(* Shared state.                                                           *)

\* SharedStateMessage::new
SharedStateMessage_new(from, to, shared_state_type) ==
    [kind |-> "SharedStateMessage",
     from |-> to_uppercase(from), to |-> to_uppercase(to),
     shared_state_type |-> shared_state_type]

\* str::parse::<Ipv4Addr>: four decimal numbers 0..255 of at most three
\* digits, without a leading zero, separated by '.'
RECURSIVE SplitDots(_, _, _)
SplitDots(s, cur, acc) ==
    IF s = <<>> THEN Append(acc, cur)
    ELSE IF Head(s) = "." THEN SplitDots(Tail(s), <<>>, Append(acc, cur))
    ELSE SplitDots(Tail(s), Append(cur, Head(s)), acc)

parse_Ipv4Addr(s) ==
    LET parts == SplitDots(s, <<>>, <<>>)
        octet(p) == /\ IsDigits(p) /\ Len(p) <= 3 /\ DecValue(p) <= 255
                    /\ (Len(p) > 1 => p[1] # "0")
    IN IF Len(parts) = 4 /\ \A i \in 1..4 : octet(parts[i]) THEN Some(s) ELSE None

\* the sub-types with no payload
PlainStates == { <<"V","E","R">>, <<"I","D">>, <<"D","I">> }

\* the sub-types that read an aircraft callsign with fields.get(4)
CallsignStates == { <<"I","H">>, <<"H","C">>, <<"P","T">>, <<"D","P">> }

\* the sub-types that read a callsign in fields[4] and a collaborator's
\* value in fields[5] behind a count check of 6
ValueStates == { <<"S","C">>, <<"T","A">>, <<"F","A">>, <<"V","T">> }

\* the land line codes: type and command
LandLineCodes ==
    { <<"I","C">>, <<"I","K">>, <<"I","B">>, <<"E","C">>,
      <<"O","V">>, <<"O","K">>, <<"O","B">>, <<"E","O">>,
      <<"M","N">>, <<"M","K">>, <<"M","B">>, <<"E","M">> }

landline_type(code) ==
    IF code \in { <<"I","C">>, <<"I","K">>, <<"I","B">>, <<"E","C">> } THEN "Intercom"
    ELSE IF code \in { <<"O","V">>, <<"O","K">>, <<"O","B">>, <<"E","O">> } THEN "Override"
    ELSE "Monitor"

\* the command of a land line code with the reject codes read as End
landline_command_reject_as_end(code) ==
    IF code \in { <<"I","C">>, <<"O","V">>, <<"M","N">> } THEN "Request"
    ELSE IF code \in { <<"I","K">>, <<"O","K">>, <<"M","K">> } THEN "Approve"
    ELSE "End"

landline_command(code) ==
    IF code \in { <<"I","C">>, <<"O","V">>, <<"M","N">> } THEN "Request"
    ELSE IF code \in { <<"I","K">>, <<"O","K">>, <<"M","K">> } THEN "Approve"
    ELSE IF code \in { <<"I","B">>, <<"O","B">>, <<"M","B">> } THEN "Reject"
    ELSE "End"

\* the land line arm reporting the port before the address
land_line_port_first(fs) ==
    LET code == F(fs, 3)
        ip_address == IF InRange(fs, 4) THEN parse_Ipv4Addr(F(fs, 4)) ELSE None
        ip_err == TextError("InvalidIPAddress", IF InRange(fs, 4) THEN F(fs, 4) ELSE <<>>)
        port == IF InRange(fs, 5) THEN parse_u16(F(fs, 5)) ELSE NoneN
        port_err == TextError("InvalidPort", IF InRange(fs, 5) THEN F(fs, 5) ELSE <<>>)
        command == landline_command(code)
        value(ip, p) == [t |-> "LandLine", landline_type |-> landline_type(code),
                         landline_command |-> command, ip_address |-> ip, port |-> p]
    IN IF command \in {"Request", "Approve"}
       THEN IF ~port.some THEN [ok |-> FALSE, val |-> NoMsg, err |-> port_err]
            ELSE IF ~ip_address.some THEN [ok |-> FALSE, val |-> NoMsg, err |-> ip_err]
            ELSE [ok |-> TRUE, val |-> value(ip_address, port), err |-> NoErr]
       ELSE [ok |-> TRUE, val |-> value(None, NoneN), err |-> NoErr]

\* the land line arm of SharedStateMessage::try_from
land_line(fs) ==
    LET code == F(fs, 3)
        ip_address == IF InRange(fs, 4) THEN parse_Ipv4Addr(F(fs, 4)) ELSE None
        ip_err == TextError("InvalidIPAddress", IF InRange(fs, 4) THEN F(fs, 4) ELSE <<>>)
        port == IF InRange(fs, 5) THEN parse_u16(F(fs, 5)) ELSE NoneN
        port_err == TextError("InvalidPort", IF InRange(fs, 5) THEN F(fs, 5) ELSE <<>>)
        command == landline_command(code)
        value(ip, p) == [t |-> "LandLine", landline_type |-> landline_type(code),
                         landline_command |-> command, ip_address |-> ip, port |-> p]
    IN IF command \in {"Request", "Approve"}
       THEN IF ~ip_address.some THEN [ok |-> FALSE, val |-> NoMsg, err |-> ip_err]
            ELSE IF ~port.some THEN [ok |-> FALSE, val |-> NoMsg, err |-> port_err]
            ELSE [ok |-> TRUE, val |-> value(ip_address, port), err |-> NoErr]
       ELSE [ok |-> TRUE, val |-> value(None, NoneN), err |-> NoErr]

\* TryFrom<&[&str]> for SharedStateMessage: the "BC" arm checks for 4
\* fields and reads fields[5] and fields[4]
SharedStateMessage_try_from(fs, c_ok) ==
    IF check_min_num_fields(fs, 4) # Continue THEN check_min_num_fields(fs, 4)
    ELSE LET from == Strip(F(fs, 0), 3)
             to == F(fs, 1)
             st == F(fs, 3)
             done(shared_state_type) ==
                 Ok(SharedStateMessage_new(from, to, shared_state_type))
         IN
         IF st \in PlainStates THEN done([t |-> st])
         ELSE IF st \in CallsignStates THEN
             IF ~InRange(fs, 4) THEN Err(InvalidFieldCount(5, Len(fs)))
             ELSE done([t |-> st, aircraft_callsign |-> to_uppercase(F(fs, 4))])
         ELSE IF st \in ValueStates THEN
             IF check_min_num_fields(fs, 6) # Continue THEN check_min_num_fields(fs, 6)
             ELSE LET value == collaborator(F(fs, 5), c_ok, "InvalidValue")
                  IN IF ~value.ok THEN Err(value.err)
                     ELSE done(callsign_value(st, to_uppercase(F(fs, 4)), value.val))
         ELSE IF st = <<"G","D">> THEN
             IF check_min_num_fields(fs, 6) # Continue THEN check_min_num_fields(fs, 6)
             ELSE done(callsign_value(st, to_uppercase(F(fs, 4)), F(fs, 5)))
         ELSE IF st = <<"B","C">> THEN
             IF check_min_num_fields(fs, 4) # Continue THEN check_min_num_fields(fs, 4)
             ELSE IF ~InRange(fs, 5) THEN Panic
             ELSE LET code == TransponderCode_from_str(F(fs, 5))
                  IN IF ~code.ok THEN Err(code.err)
                     ELSE done([t |-> st, aircraft_callsign |-> to_uppercase(F(fs, 4)),
                                code |-> code.val])
         ELSE IF st = <<"S","T">> THEN
             IF ~InRange(fs, 4) THEN Err(InvalidFieldCount(5, Len(fs)))
             ELSE done([t |-> st, aircraft_callsign |-> to_uppercase(F(fs, 4)),
                        format |-> IF InRange(fs, 5) THEN parse_i32(F(fs, 5)) ELSE NoneN,
                        contents |-> IF Len(fs) >= 6 THEN Some(From(fs, 6)) ELSE None])
         ELSE IF st \in LandLineCodes THEN
             LET ll == land_line(fs)
             IN IF ~ll.ok THEN Err(ll.err) ELSE done(ll.val)
         ELSE Err(TextError("InvalidSharedStateType", F(fs, 3)))

-----------------------------------------------------------------------------
(* The caller: which lines and which constructor arguments it uses.        *)
(* A line reaches a variant's parser from the router, so field 0 of every  *)
(* generated line keeps the marker of the sample line it is derived from.  *)

Samples ==
    {
      [v |-> "AtcRegisterMessage",
       fs |-> << <<"#","A","A","a","b">>, <<"S","E","R","V","E","R">>, <<"C","a","s">>, <<"c","e","r","t">>, <<"p","w">>, <<"4">>, <<"9">> >>],
      [v |-> "PilotRegisterMessage",
       fs |-> << <<"#","A","P","a","b">>, <<"S","E","R","V","E","R">>, <<"c","e","r","t">>, <<"p","w">>, <<"1">>, <<"9">>, <<"1">>, <<"C","a","s">> >>],
      [v |-> "AtcDeregisterMessage",
       fs |-> << <<"#","D","A","a","b">>, <<"c","e","r","t">> >>],
      [v |-> "PilotDeregisterMessage",
       fs |-> << <<"#","D","P","a","b">>, <<"c","e","r","t">> >>],
      [v |-> "AtcPositionUpdateMessage",
       fs |-> << <<"%","a","b">>, <<"9","9","9","9","8">>, <<"5">>, <<"1","0","0">>, <<"4">>, <<"5","5",".","9","5">>, <<"-","3",".","3","7">>, <<"1","0","0">> >>],
      [v |-> "AtcSecondaryVisCentreMessage",
       fs |-> << <<"'","a","b">>, <<"1">>, <<"5","5",".","9">>, <<"-","3",".","3">> >>],
      [v |-> "PilotPositionUpdateMessage",
       fs |-> << <<"@","N">>, <<"a","b">>, <<"1","2","3","4">>, <<"1">>, <<"5","5",".","9">>, <<"-","3",".","3">>, <<"1","0","0">>, <<"5","0">>, <<"4","0","9","6">>, <<"2","0">> >>],
      [v |-> "AuthenticationChallengeMessage",
       fs |-> << <<"$","Z","C","a","b">>, <<"S","E","R","V","E","R">>, <<"c","0","d","e">> >>],
      [v |-> "AuthenticationResponseMessage",
       fs |-> << <<"$","Z","R","a","b">>, <<"S","E","R","V","E","R">>, <<"c","0","d","e">> >>],
      [v |-> "TextMessage",
       fs |-> << <<"#","T","M","S","E","R","V","E","R">>, <<"A","L","L">>, <<"H","e","l","l","o">>, <<"W","o","r","l","d">> >>],
      [v |-> "TextMessage",
       fs |-> << <<"#","T","M","a","b">>, <<"c","d">>, <<"h","i">> >>],
      [v |-> "FrequencyMessage",
       fs |-> << <<"#","T","M","a","b">>, <<"@","2","2","8","0","0">>, <<"h","i">> >>],
      [v |-> "ChangeServerMessage",
       fs |-> << <<"$","X","X","S","E","R","V","E","R">>, <<"a","b">>, <<"h","o","s","t">> >>],
      [v |-> "InitialServerHandshakeMessage",
       fs |-> << <<"$","D","I","S","E","R","V","E","R">>, <<"a","b">>, <<"V","E","R">>, <<"k","e","y">> >>],
      [v |-> "InitialClientHandshakeMessage",
       fs |-> << <<"$","I","D","a","b">>, <<"S","E","R","V","E","R">>, <<"0","0","f","f">>, <<"n","a","m","e">>, <<"1">>, <<"2">>, <<"c","e","r","t">>, <<"g","u","i","d">>, <<"k","e","y">> >>],
      [v |-> "InitialClientHandshakeMessage",
       fs |-> << <<"$","I","D","a","b">>, <<"S","E","R","V","E","R">>, <<"1","0","0","0","0">>, <<"n","a","m","e">>, <<"1">>, <<"2">>, <<"c","e","r","t">>, <<"g","u","i","d">>, <<"k","e","y">> >>],
      [v |-> "InitialClientHandshakeMessage",
       fs |-> << <<"$","I","D","a","b">>, <<"S","E","R","V","E","R">>, <<"F","F","F","F">>, <<"n","a","m","e">>, <<"1">>, <<"2">>, <<"c","e","r","t">>, <<"g","u","i","d">>, <<"k","e","y">> >>],
      [v |-> "SendFastPositionUpdatesMessage",
       fs |-> << <<"$","S","F","a","b">>, <<"c","d">>, <<"1">> >>],
      [v |-> "VelocityPositionStoppedMessage",
       fs |-> << <<"#","S","T","a","b">>, <<"5","5",".","9">>, <<"-","3",".","3">>, <<"1","0","0",".","5">>, <<"1","0">>, <<"4","0","9","6">>, <<"1",".","5">> >>],
      [v |-> "VelocityPositionSlowMessage",
       fs |-> << <<"#","S","L","a","b">>, <<"5","5",".","9">>, <<"-","3",".","3">>, <<"1","0","0",".","5">>, <<"1","0">>, <<"4","0","9","6">>, <<"1">>, <<"2">>, <<"3">>, <<"1">>, <<"2">>, <<"3">>, <<"1",".","5">> >>],
      [v |-> "VelocityPositionFastMessage",
       fs |-> << <<"^","a","b">>, <<"5","5",".","9">>, <<"-","3",".","3">>, <<"1","0","0",".","5">>, <<"1","0">>, <<"4","0","9","6">>, <<"1">>, <<"2">>, <<"3">>, <<"1">>, <<"2">>, <<"3">>, <<"1",".","5">> >>],
      [v |-> "KillMessage",
       fs |-> << <<"$","!","!","S","E","R","V","E","R">>, <<"a","b">>, <<"b","y","e">> >>],
      [v |-> "MetarRequestMessage",
       fs |-> << <<"$","A","X","a","b">>, <<"S","E","R","V","E","R">>, <<"M","E","T","A","R">>, <<"e","g","p","h">> >>],
      [v |-> "MetarResponseMessage",
       fs |-> << <<"$","A","R","S","E","R","V","E","R">>, <<"a","b">>, <<"M","E","T","A","R">>, <<"e","g","p","h"," ","1","k">> >>],
      [v |-> "PingMessage",
       fs |-> << <<"$","P","I","a","b">>, <<"S","E","R","V","E","R">>, <<"d","a","t","a">> >>],
      [v |-> "PongMessage",
       fs |-> << <<"$","P","O","S","E","R","V","E","R">>, <<"a","b">>, <<"d","a","t","a">> >>],
      [v |-> "PlaneInfoRequestMessage",
       fs |-> << <<"#","S","B","a","b">>, <<"c","d">>, <<"P","I","R">> >>],
      [v |-> "PlaneInfoResponseMessage",
       fs |-> << <<"#","S","B","a","b">>, <<"c","d">>, <<"P","I">>, <<"G","E","N">>, <<"B","7","3","8">> >>],
      [v |-> "FsdErrorMessage",
       fs |-> << <<"$","E","R","s","e","r","v","e","r">>, <<"a","b">>, <<"0","0","7">>, <<"c","d">>, <<"m","s","g">> >>],
      [v |-> "FsdErrorMessage",
       fs |-> << <<"$","E","R","s","e","r","v","e","r">>, <<"a","b">>, <<"0","0","4">>, <<"c","d">>, <<"m","s","g">> >>],
      [v |-> "FsdErrorMessage",
       fs |-> << <<"$","E","R","s","e","r","v","e","r">>, <<"a","b">>, <<"0","0","2">>, <<"c","d">>, <<"m","s","g">> >>],
      [v |-> "FsdErrorMessage",
       fs |-> << <<"$","E","R","s","e","r","v","e","r">>, <<"a","b">>, <<"0","0","5">>, <<"c","d">>, <<"m","s","g">> >>],
      [v |-> "FsdErrorMessage",
       fs |-> << <<"$","E","R","s","e","r","v","e","r">>, <<"a","b">>, <<"0","2","0">>, <<"c","d">>, <<"m","s","g">> >>],
      [v |-> "FlightPlanMessage",
       fs |-> << <<"$","F","P","a","b">>, <<"*","A">>, <<"I">>, <<"B","7","3","8">>, <<"4","2","0">>, <<"E","G","P","H">>, <<"1","2","0","0">>, <<"1","2","0","0">>, <<"3","5","0">>, <<"E","G","L","L">>, <<"1">>, <<"3","0">>, <<"2">>, <<"3","0">>, <<"E","G","K","K">>, <<"r","m","k">>, <<"d","c","t">> >>],
      [v |-> "FlightPlanAmendmentMessage",
       fs |-> << <<"$","A","M","a","b">>, <<"S","E","R","V","E","R">>, <<"c","d">>, <<"I">>, <<"B","7","3","8">>, <<"4","2","0">>, <<"E","G","P","H">>, <<"1","2","0","0">>, <<"1","2","0","0">>, <<"3","5","0">>, <<"E","G","L","L">>, <<"1">>, <<"3","0">>, <<"2">>, <<"3","0">>, <<"E","G","K","K">>, <<"r","m","k">>, <<"d","c","t">> >>],
      [v |-> "HandoffOfferMessage",
       fs |-> << <<"$","H","O","a","b">>, <<"c","d">>, <<"e","f">> >>],
      [v |-> "HandoffAcceptMessage",
       fs |-> << <<"$","H","A","a","b">>, <<"c","d">>, <<"e","f">> >>],
      [v |-> "ClientQueryMessage",
       fs |-> << <<"$","C","Q","a","b">>, <<"S","E","R","V","E","R">>, <<"C","?">> >>],
      [v |-> "ClientQueryMessage",
       fs |-> << <<"$","C","Q","a","b">>, <<"S","E","R","V","E","R">>, <<"I","P">> >>],
      [v |-> "ClientQueryMessage",
       fs |-> << <<"$","C","Q","a","b">>, <<"S","E","R","V","E","R">>, <<"A","T","I","S">> >>],
      [v |-> "ClientQueryMessage",
       fs |-> << <<"$","C","Q","a","b">>, <<"S","E","R","V","E","R">>, <<"R","N">> >>],
      [v |-> "ClientQueryMessage",
       fs |-> << <<"$","C","Q","a","b">>, <<"S","E","R","V","E","R">>, <<"S","V">> >>],
      [v |-> "ClientQueryMessage",
       fs |-> << <<"$","C","Q","a","b">>, <<"S","E","R","V","E","R">>, <<"B","Y">> >>],
      [v |-> "ClientQueryMessage",
       fs |-> << <<"$","C","Q","a","b">>, <<"S","E","R","V","E","R">>, <<"C","A","P","S">> >>],
      [v |-> "ClientQueryMessage",
       fs |-> << <<"$","C","Q","a","b">>, <<"S","E","R","V","E","R">>, <<"H","I">> >>],
      [v |-> "ClientQueryMessage",
       fs |-> << <<"$","C","Q","a","b">>, <<"S","E","R","V","E","R">>, <<"I","N","F">> >>],
      [v |-> "ClientQueryMessage",
       fs |-> << <<"$","C","Q","a","b">>, <<"S","E","R","V","E","R">>, <<"I","P","C">>, <<"W">>, <<"8","5","2">>, <<"8","7","0","4">> >>],
      [v |-> "ClientQueryMessage",
       fs |-> << <<"$","C","Q","a","b">>, <<"S","E","R","V","E","R">>, <<"A","C","C">>, <<"r","e","q","u","e","s","t">> >>],
      [v |-> "ClientQueryMessage",
       fs |-> << <<"$","C","Q","a","b">>, <<"S","E","R","V","E","R">>, <<"A","C","C">>, <<"c","f","g">> >>],
      [v |-> "ClientQueryMessage",
       fs |-> << <<"$","C","Q","a","b">>, <<"S","E","R","V","E","R">>, <<"H","L","P">>, <<"m","s","g">> >>],
      [v |-> "ClientQueryMessage",
       fs |-> << <<"$","C","Q","a","b">>, <<"S","E","R","V","E","R">>, <<"N","O","H","L","P">>, <<"m","s","g">> >>],
      [v |-> "ClientQueryMessage",
       fs |-> << <<"$","C","Q","a","b">>, <<"S","E","R","V","E","R">>, <<"S","C">>, <<"e","f">>, <<"p","a","d">> >>],
      [v |-> "ClientQueryMessage",
       fs |-> << <<"$","C","Q","a","b">>, <<"S","E","R","V","E","R">>, <<"F","A">>, <<"e","f">>, <<"3","5","0">> >>],
      [v |-> "ClientQueryMessage",
       fs |-> << <<"$","C","Q","a","b">>, <<"S","E","R","V","E","R">>, <<"V","T">>, <<"e","f">>, <<"v">> >>],
      [v |-> "ClientQueryMessage",
       fs |-> << <<"$","C","Q","a","b">>, <<"S","E","R","V","E","R">>, <<"T","A">>, <<"e","f">>, <<"3","5","0">> >>],
      [v |-> "ClientQueryMessage",
       fs |-> << <<"$","C","Q","a","b">>, <<"S","E","R","V","E","R">>, <<"B","C">>, <<"e","f">>, <<"1","2","3","4">> >>],
      [v |-> "ClientQueryMessage",
       fs |-> << <<"$","C","Q","a","b">>, <<"S","E","R","V","E","R">>, <<"A","T","C">>, <<"e","f">> >>],
      [v |-> "ClientQueryMessage",
       fs |-> << <<"$","C","Q","a","b">>, <<"S","E","R","V","E","R">>, <<"F","P">>, <<"e","f">> >>],
      [v |-> "ClientQueryMessage",
       fs |-> << <<"$","C","Q","a","b">>, <<"S","E","R","V","E","R">>, <<"N","E","W","A","T","I","S">>, <<"A">>, <<"w","i","n","d">>, <<"q","n","h">> >>],
      [v |-> "ClientQueryMessage",
       fs |-> << <<"$","C","Q","a","b">>, <<"S","E","R","V","E","R">>, <<"N","E","W","I","N","F","O">>, <<"o">> >>],
      [v |-> "ClientQueryMessage",
       fs |-> << <<"$","C","Q","a","b">>, <<"S","E","R","V","E","R">>, <<"W","H">>, <<"e","f">> >>],
      [v |-> "ClientQueryMessage",
       fs |-> << <<"$","C","Q","a","b">>, <<"S","E","R","V","E","R">>, <<"D","R">>, <<"e","f">> >>],
      [v |-> "ClientQueryMessage",
       fs |-> << <<"$","C","Q","a","b">>, <<"S","E","R","V","E","R">>, <<"I","T">>, <<"e","f">> >>],
      [v |-> "ClientQueryMessage",
       fs |-> << <<"$","C","Q","a","b">>, <<"S","E","R","V","E","R">>, <<"H","T">>, <<"e","f">>, <<"g","h">> >>],
      [v |-> "ClientQueryMessage",
       fs |-> << <<"$","C","Q","a","b">>, <<"S","E","R","V","E","R">>, <<"S","I","M","T","I","M","E">>, <<"2","0","2","4","0","1","0","1","1","2","0","0","0","0">> >>],
      [v |-> "ClientQueryMessage",
       fs |-> << <<"$","C","Q","a","b">>, <<"S","E","R","V","E","R">>, <<"G","D">>, <<"e","f">>, <<"d","a","t","a">> >>],
      [v |-> "ClientQueryMessage",
       fs |-> << <<"$","C","Q","a","b">>, <<"S","E","R","V","E","R">>, <<"Z","Z">> >>],
      [v |-> "ClientQueryResponseMessage",
       fs |-> << <<"$","C","R","a","b">>, <<"c","d">>, <<"C","?">>, <<"1","2","2",".","8">> >>],
      [v |-> "ClientQueryResponseMessage",
       fs |-> << <<"$","C","R","a","b">>, <<"c","d">>, <<"A","T","I","S">>, <<"V">>, <<"v","o","i","c","e">> >>],
      [v |-> "ClientQueryResponseMessage",
       fs |-> << <<"$","C","R","a","b">>, <<"c","d">>, <<"A","T","I","S">>, <<"T">>, <<"t","e","x","t">> >>],
      [v |-> "ClientQueryResponseMessage",
       fs |-> << <<"$","C","R","a","b">>, <<"c","d">>, <<"A","T","I","S">>, <<"Z">>, <<"2","0","0","0","z">> >>],
      [v |-> "ClientQueryResponseMessage",
       fs |-> << <<"$","C","R","a","b">>, <<"c","d">>, <<"A","T","I","S">>, <<"E">>, <<"4">> >>],
      [v |-> "ClientQueryResponseMessage",
       fs |-> << <<"$","C","R","a","b">>, <<"c","d">>, <<"A","T","I","S">>, <<"Q">>, <<"x">> >>],
      [v |-> "ClientQueryResponseMessage",
       fs |-> << <<"$","C","R","a","b">>, <<"c","d">>, <<"R","N">>, <<"n","a","m","e">>, <<"s","e","c","t","o","r">>, <<"4">> >>],
      [v |-> "ClientQueryResponseMessage",
       fs |-> << <<"$","C","R","a","b">>, <<"c","d">>, <<"I","P">>, <<"1",".","2",".","3",".","4">> >>],
      [v |-> "ClientQueryResponseMessage",
       fs |-> << <<"$","C","R","a","b">>, <<"c","d">>, <<"S","V">>, <<"h","o","s","t">> >>],
      [v |-> "ClientQueryResponseMessage",
       fs |-> << <<"$","C","R","a","b">>, <<"c","d">>, <<"A","T","C">>, <<"Y">>, <<"e","f">> >>],
      [v |-> "ClientQueryResponseMessage",
       fs |-> << <<"$","C","R","a","b">>, <<"c","d">>, <<"C","A","P","S">>, <<"A","T","C","I","N","F","O","=","1">>, <<"M","O","D","E","L","D","E","S","C","=","1">> >>],
      [v |-> "ClientQueryResponseMessage",
       fs |-> << <<"$","C","R","a","b">>, <<"c","d">>, <<"Z","Z">>, <<"x">> >>],
      [v |-> "SharedStateMessage",
       fs |-> << <<"#","P","C","a","b">>, <<"c","d">>, <<"C","C","P">>, <<"V","E","R">> >>],
      [v |-> "SharedStateMessage",
       fs |-> << <<"#","P","C","a","b">>, <<"c","d">>, <<"C","C","P">>, <<"I","D">> >>],
      [v |-> "SharedStateMessage",
       fs |-> << <<"#","P","C","a","b">>, <<"c","d">>, <<"C","C","P">>, <<"D","I">> >>],
      [v |-> "SharedStateMessage",
       fs |-> << <<"#","P","C","a","b">>, <<"c","d">>, <<"C","C","P">>, <<"I","H">>, <<"e","f">> >>],
      [v |-> "SharedStateMessage",
       fs |-> << <<"#","P","C","a","b">>, <<"c","d">>, <<"C","C","P">>, <<"S","C">>, <<"e","f">>, <<"p","a","d">> >>],
      [v |-> "SharedStateMessage",
       fs |-> << <<"#","P","C","a","b">>, <<"c","d">>, <<"C","C","P">>, <<"G","D">>, <<"e","f">>, <<"d","a","t","a">> >>],
      [v |-> "SharedStateMessage",
       fs |-> << <<"#","P","C","a","b">>, <<"c","d">>, <<"C","C","P">>, <<"T","A">>, <<"e","f">>, <<"3","5","0">> >>],
      [v |-> "SharedStateMessage",
       fs |-> << <<"#","P","C","a","b">>, <<"c","d">>, <<"C","C","P">>, <<"F","A">>, <<"e","f">>, <<"3","5","0">> >>],
      [v |-> "SharedStateMessage",
       fs |-> << <<"#","P","C","a","b">>, <<"c","d">>, <<"C","C","P">>, <<"V","T">>, <<"e","f">>, <<"v">> >>],
      [v |-> "SharedStateMessage",
       fs |-> << <<"#","P","C","a","b">>, <<"c","d">>, <<"C","C","P">>, <<"B","C">>, <<"e","f">>, <<"1","2","3","4">> >>],
      [v |-> "SharedStateMessage",
       fs |-> << <<"#","P","C","a","b">>, <<"c","d">>, <<"C","C","P">>, <<"H","C">>, <<"e","f">> >>],
      [v |-> "SharedStateMessage",
       fs |-> << <<"#","P","C","a","b">>, <<"c","d">>, <<"C","C","P">>, <<"P","T">>, <<"e","f">> >>],
      [v |-> "SharedStateMessage",
       fs |-> << <<"#","P","C","a","b">>, <<"c","d">>, <<"C","C","P">>, <<"D","P">>, <<"e","f">> >>],
      [v |-> "SharedStateMessage",
       fs |-> << <<"#","P","C","a","b">>, <<"c","d">>, <<"C","C","P">>, <<"S","T">>, <<"e","f">>, <<"1">>, <<"x">>, <<"y">> >>],
      [v |-> "SharedStateMessage",
       fs |-> << <<"#","P","C","a","b">>, <<"c","d">>, <<"C","C","P">>, <<"Z","Z">> >>],
      [v |-> "SharedStateMessage",
       fs |-> << <<"#","P","C","a","b">>, <<"c","d">>, <<"C","C","P">>, <<"I","C">>, <<"1",".","2",".","3",".","4">>, <<"4","0","0","0">> >>],
      [v |-> "SharedStateMessage",
       fs |-> << <<"#","P","C","a","b">>, <<"c","d">>, <<"C","C","P">>, <<"I","C">>, <<"1",".","2",".","3",".","4">>, <<"6","5","5","3","6">> >>],
      [v |-> "SharedStateMessage",
       fs |-> << <<"#","P","C","a","b">>, <<"c","d">>, <<"C","C","P">>, <<"M","K">>, <<"2","5","6",".","2",".","3",".","4">>, <<"6","5","5","3","5">> >>],
      [v |-> "SharedStateMessage",
       fs |-> << <<"#","P","C","a","b">>, <<"c","d">>, <<"C","C","P">>, <<"I","K">>, <<"1",".","2",".","3",".","4">>, <<"4","0","0","0">> >>],
      [v |-> "SharedStateMessage",
       fs |-> << <<"#","P","C","a","b">>, <<"c","d">>, <<"C","C","P">>, <<"I","B">>, <<"1",".","2",".","3",".","4">>, <<"4","0","0","0">> >>],
      [v |-> "SharedStateMessage",
       fs |-> << <<"#","P","C","a","b">>, <<"c","d">>, <<"C","C","P">>, <<"E","C">>, <<"1",".","2",".","3",".","4">>, <<"4","0","0","0">> >>],
      [v |-> "SharedStateMessage",
       fs |-> << <<"#","P","C","a","b">>, <<"c","d">>, <<"C","C","P">>, <<"O","V">>, <<"1",".","2",".","3",".","4">>, <<"4","0","0","0">> >>],
      [v |-> "SharedStateMessage",
       fs |-> << <<"#","P","C","a","b">>, <<"c","d">>, <<"C","C","P">>, <<"O","K">>, <<"1",".","2",".","3",".","4">>, <<"4","0","0","0">> >>],
      [v |-> "SharedStateMessage",
       fs |-> << <<"#","P","C","a","b">>, <<"c","d">>, <<"C","C","P">>, <<"O","B">>, <<"1",".","2",".","3",".","4">>, <<"4","0","0","0">> >>],
      [v |-> "SharedStateMessage",
       fs |-> << <<"#","P","C","a","b">>, <<"c","d">>, <<"C","C","P">>, <<"E","O">>, <<"1",".","2",".","3",".","4">>, <<"4","0","0","0">> >>],
      [v |-> "SharedStateMessage",
       fs |-> << <<"#","P","C","a","b">>, <<"c","d">>, <<"C","C","P">>, <<"M","N">>, <<"1",".","2",".","3",".","4">>, <<"4","0","0","0">> >>],
      [v |-> "SharedStateMessage",
       fs |-> << <<"#","P","C","a","b">>, <<"c","d">>, <<"C","C","P">>, <<"M","K">>, <<"1",".","2",".","3",".","4">>, <<"4","0","0","0">> >>],
      [v |-> "SharedStateMessage",
       fs |-> << <<"#","P","C","a","b">>, <<"c","d">>, <<"C","C","P">>, <<"M","B">>, <<"1",".","2",".","3",".","4">>, <<"4","0","0","0">> >>],
      [v |-> "SharedStateMessage",
       fs |-> << <<"#","P","C","a","b">>, <<"c","d">>, <<"C","C","P">>, <<"E","M">>, <<"1",".","2",".","3",".","4">>, <<"4","0","0","0">> >>],
      [v |-> "FsdErrorMessage",
       fs |-> << <<"$","E","R","s","e","r","v","e","r">>, <<"a","b">>, <<"0","0","9">>, <<"e","g","p","h">>, <<"m","s","g">> >>],
      [v |-> "FsdErrorMessage",
       fs |-> << <<"$","E","R","s","e","r","v","e","r">>, <<"a","b">>, <<"0","0","8">>, <<"e","g","p","h">>, <<"m","s","g">> >>],
      [v |-> "FsdErrorMessage",
       fs |-> << <<"$","E","R","s","e","r","v","e","r">>, <<"a","b">>, <<"0","0","0">>, <<"c","d">>, <<"m","s","g">> >>],
      [v |-> "FsdErrorMessage",
       fs |-> << <<"$","E","R","s","e","r","v","e","r">>, <<"a","b">>, <<"0","1","7">>, <<"c","d">>, <<"m","s","g">> >>],
      [v |-> "FsdErrorMessage",
       fs |-> << <<"$","E","R","s","e","r","v","e","r">>, <<"a","b">>, <<"0","1","8">>, <<"c","d">>, <<"m","s","g">> >>],
      [v |-> "FsdErrorMessage",
       fs |-> << <<"$","E","R","s","e","r","v","e","r">>, <<"a","b">>, <<"2","5","5">>, <<"c","d">>, <<"m","s","g">> >>],
      [v |-> "FsdErrorMessage",
       fs |-> << <<"$","E","R","s","e","r","v","e","r">>, <<"a","b">>, <<"2","5","6">>, <<"c","d">>, <<"m","s","g">> >>],
      [v |-> "AtcPositionUpdateMessage",
       fs |-> << <<"%","a","b">>, <<"9","9","9","9","8">>, <<"5">>, <<"1","0","0">>, <<"4">>, <<"5","5",".","9","5">>, <<"-","3",".","3","7">>, <<"a","b","c">> >>],
      [v |-> "PilotPositionUpdateMessage",
       fs |-> << <<"@","N">>, <<"a","b">>, <<"9","9","9","9">>, <<"1">>, <<"5","5",".","9">>, <<"-","3",".","3">>, <<"a","b","c">>, <<"5","0">>, <<"4","0","9","6">>, <<"2","0">> >>],
      [v |-> "VelocityPositionStoppedMessage",
       fs |-> << <<"#","S","T","a","b">>, <<"x","x">>, <<"-","3",".","3">>, <<"1","0","0",".","5">>, <<"1","0">>, <<"z","z">>, <<"1",".","5">> >>],
      [v |-> "AtcRegisterMessage",
       fs |-> << <<"#","A","A","E","G","P","H","_","M","_","A","P","P">>, <<"S","E","R","V","E","R">>, <<"C","a","s","p","i","a","n">>, <<"n","e","w","c","e","r","t">>, <<"t","e","s","t">>, <<"4">>, <<"9">> >>]
    }

\* the texts a field of a generated line may hold in place of the sample's
FieldTexts ==
    { <<>>, <<"a","b">>, <<"1">>, <<"9","9","9">>, <<"-","1">>, <<"1",".","5">>,
      <<"8">> }

\* the text of a field beyond the sample's last
Filler == <<"x">>

\* the sample fs cut or extended to n fields, its field i (0-based, i > 0)
\* replaced by t; i = 0 replaces nothing
Mutated(fs, n, i, t) ==
    [k \in 1..n |-> IF i > 0 /\ k = i + 1 THEN t
                    ELSE IF k <= Len(fs) THEN fs[k]
                    ELSE Filler]

\* the lines derived from one sample
Lines(fs) ==
    UNION { { Mutated(fs, n, 0, <<>>) }
            \cup { Mutated(fs, n, i, t) : i \in 1..(n - 1), t \in FieldTexts }
          : n \in 0..(Len(fs) + MaxExtra) }

\* the callsigns and the free texts handed to the constructors
Callsigns == { <<"A">>, <<"B">>, <<"a","b">> }
FreeTexts == { <<>>, <<"b","y","e">>, <<"x",":","y">> }

\* the server errors handed to FsdErrorMessage::new
NamedErrors == { "NoSuchCallsign", "NoFlightPlan", "NoWeatherProfile" }
ErrorNames == { <<"E","G","P","H">>, <<"N","1">> }
ErrorValues ==
    { FsdError(ErrorKindOfCode[c], <<>>) : c \in (1..17) \ {7, 8, 9} }
    \cup { FsdError(k, n) : k \in NamedErrors, n \in ErrorNames }
    \cup { FsdError("Other", t) : t \in FreeTexts }

\* the variants whose messages the caller formats
Formatted ==
    { "AtcDeregisterMessage", "PilotDeregisterMessage",
      "AuthenticationChallengeMessage", "AuthenticationResponseMessage",
      "TextMessage", "ChangeServerMessage", "InitialServerHandshakeMessage",
      "SendFastPositionUpdatesMessage", "KillMessage", "MetarRequestMessage",
      "MetarResponseMessage", "PingMessage", "PongMessage",
      "PlaneInfoRequestMessage", "HandoffOfferMessage", "HandoffAcceptMessage",
      "InitialClientHandshakeMessage", "FsdErrorMessage",
      "PilotPositionUpdateMessage", "VelocityPositionSlowMessage",
      "VelocityPositionFastMessage" }

\* the variants the caller builds with new
Constructed ==
    (Formatted \ { "PilotPositionUpdateMessage", "VelocityPositionSlowMessage",
                   "VelocityPositionFastMessage" }) \cup { "AtcRegisterMessage", "AtcSecondaryVisCentreMessage",
                     "FrequencyMessage", "PlaneInfoResponseMessage",
                     "FlightPlanMessage", "FlightPlanAmendmentMessage" }

\* the client ids handed to InitialClientHandshakeMessage::new
ClientIds == { 0, 1, 10, 255, 256, 4096, 43981, 65535 }

\* the altitudes handed to PilotPositionUpdateMessage::new
Altitudes == { I32Min, 0 - 1000, 0, 100, 35000, I32Max }

\* the variants whose parser calls a collaborator
Collaborating ==
    { "FlightPlanMessage", "FlightPlanAmendmentMessage", "ClientQueryMessage",
      "ClientQueryResponseMessage", "SharedStateMessage" }

-----------------------------------------------------------------------------
(* The calls of the caller.                                                *)

\* <Variant>::try_from(fields); ok is the answer of the collaborator the
\* parser calls, if it calls one
Parse(v, fs, ok) ==
    CASE v = "AtcRegisterMessage" -> AtcRegisterMessage_try_from(fs)
      [] v = "PilotRegisterMessage" -> PilotRegisterMessage_try_from(fs)
      [] v = "AtcDeregisterMessage" -> AtcDeregisterMessage_try_from(fs)
      [] v = "PilotDeregisterMessage" -> PilotDeregisterMessage_try_from(fs)
      [] v = "AtcPositionUpdateMessage" -> AtcPositionUpdateMessage_try_from(fs)
      [] v = "AtcSecondaryVisCentreMessage" -> AtcSecondaryVisCentreMessage_try_from(fs)
      [] v = "PilotPositionUpdateMessage" -> PilotPositionUpdateMessage_try_from(fs)
      [] v = "AuthenticationChallengeMessage" -> AuthenticationChallengeMessage_try_from(fs)
      [] v = "AuthenticationResponseMessage" -> AuthenticationResponseMessage_try_from(fs)
      [] v = "TextMessage" -> TextMessage_try_from(fs)
      [] v = "FrequencyMessage" -> FrequencyMessage_try_from(fs)
      [] v = "ChangeServerMessage" -> ChangeServerMessage_try_from(fs)
      [] v = "InitialServerHandshakeMessage" -> InitialServerHandshakeMessage_try_from(fs)
      [] v = "InitialClientHandshakeMessage" -> InitialClientHandshakeMessage_try_from(fs)
      [] v = "SendFastPositionUpdatesMessage" -> SendFastPositionUpdatesMessage_try_from(fs)
      [] v = "VelocityPositionStoppedMessage" -> VelocityPositionStoppedMessage_try_from(fs)
      [] v = "VelocityPositionSlowMessage" -> VelocityPositionSlowMessage_try_from(fs)
      [] v = "VelocityPositionFastMessage" -> VelocityPositionFastMessage_try_from(fs)
      [] v = "KillMessage" -> KillMessage_try_from(fs)
      [] v = "MetarRequestMessage" -> MetarRequestMessage_try_from(fs)
      [] v = "MetarResponseMessage" -> MetarResponseMessage_try_from(fs)
      [] v = "PingMessage" -> PingMessage_try_from(fs)
      [] v = "PongMessage" -> PongMessage_try_from(fs)
      [] v = "PlaneInfoRequestMessage" -> PlaneInfoRequestMessage_try_from(fs)
      [] v = "PlaneInfoResponseMessage" -> PlaneInfoResponseMessage_try_from(fs)
      [] v = "FsdErrorMessage" -> FsdErrorMessage_try_from(fs)
      [] v = "FlightPlanMessage" -> FlightPlanMessage_try_from(fs, ok)
      [] v = "FlightPlanAmendmentMessage" -> FlightPlanAmendmentMessage_try_from(fs, ok)
      [] v = "ClientQueryMessage" -> ClientQueryMessage_try_from(fs, ok)
      [] v = "ClientQueryResponseMessage" -> ClientQueryResponseMessage_try_from(fs, ok)
      [] v = "SharedStateMessage" -> SharedStateMessage_try_from(fs, ok)
      [] v = "HandoffOfferMessage" -> HandoffOfferMessage_try_from(fs)
      [] v = "HandoffAcceptMessage" -> HandoffAcceptMessage_try_from(fs)

\* <Variant>::new with the callsigns from and to, the free text text (an
\* optional argument is Some(text) when present, else None) and, for the
\* server error, the error e; the other arguments are fixed values
New(v, from, to, text, present, e, client_id) ==
    LET opt == IF present THEN Some(text) ELSE None
    IN CASE v = "AtcDeregisterMessage" -> AtcDeregisterMessage_new(from, text)
         [] v = "PilotDeregisterMessage" -> PilotDeregisterMessage_new(from, text)
         [] v = "AuthenticationChallengeMessage" ->
                AuthenticationChallengeMessage_new(from, to, text)
         [] v = "AuthenticationResponseMessage" ->
                AuthenticationResponseMessage_new(from, to, text)
         [] v = "TextMessage" -> TextMessage_new(from, to, text)
         [] v = "ChangeServerMessage" -> ChangeServerMessage_new(from, to, text)
         [] v = "InitialServerHandshakeMessage" ->
                InitialServerHandshakeMessage_new(from, to, <<"V","E","R">>, text)
         [] v = "SendFastPositionUpdatesMessage" ->
                SendFastPositionUpdatesMessage_new(from, to, present)
         [] v = "KillMessage" -> KillMessage_new(from, to, opt)
         [] v = "MetarRequestMessage" -> MetarRequestMessage_new(from, to, text)
         [] v = "MetarResponseMessage" -> MetarResponseMessage_new(from, to, text)
         [] v = "PingMessage" -> PingMessage_new(from, to, text)
         [] v = "PongMessage" -> PongMessage_new(from, to, text)
         [] v = "PlaneInfoRequestMessage" -> PlaneInfoRequestMessage_new(from, to)
         [] v = "HandoffOfferMessage" -> HandoffOfferMessage_new(from, to, text)
         [] v = "HandoffAcceptMessage" -> HandoffAcceptMessage_new(from, to, text)
         [] v = "InitialClientHandshakeMessage" ->
                InitialClientHandshakeMessage_new(from, to, client_id, text, 1, 2,
                    <<"c","e","r","t">>, <<"g","u","i","d">>, opt)
         [] v = "FsdErrorMessage" -> FsdErrorMessage_new(from, to, e)
         [] v = "AtcRegisterMessage" ->
                AtcRegisterMessage_new(from, to, text, <<"c","e","r","t">>,
                                       <<"p","w">>, 4, 9)
         [] v = "AtcSecondaryVisCentreMessage" ->
                AtcSecondaryVisCentreMessage_new(from, 1, F64(55, 9000), F64(0 - 4, 7000))
         [] v = "FrequencyMessage" ->
                FrequencyMessage_new(from, <<"@","2","2","8","0","0">>, text)
         [] v = "PlaneInfoResponseMessage" ->
                PlaneInfoResponseMessage_new(from, to, <<text>>)
         [] v = "FlightPlanMessage" -> FlightPlanMessage_new(to, from, <<text>>)
         [] v = "FlightPlanAmendmentMessage" ->
                FlightPlanAmendmentMessage_new(from, to, from, <<text>>)

\* Display::fmt of the message m
Fmt(m) ==
    CASE m.kind = "AtcDeregisterMessage" -> AtcDeregisterMessage_fmt(m)
      [] m.kind = "PilotDeregisterMessage" -> PilotDeregisterMessage_fmt(m)
      [] m.kind = "AuthenticationChallengeMessage" -> AuthenticationChallengeMessage_fmt(m)
      [] m.kind = "AuthenticationResponseMessage" -> AuthenticationResponseMessage_fmt(m)
      [] m.kind = "TextMessage" -> TextMessage_fmt(m)
      [] m.kind = "ChangeServerMessage" -> ChangeServerMessage_fmt(m)
      [] m.kind = "InitialServerHandshakeMessage" -> InitialServerHandshakeMessage_fmt(m)
      [] m.kind = "SendFastPositionUpdatesMessage" -> SendFastPositionUpdatesMessage_fmt(m)
      [] m.kind = "KillMessage" -> KillMessage_fmt(m)
      [] m.kind = "MetarRequestMessage" -> MetarRequestMessage_fmt(m)
      [] m.kind = "MetarResponseMessage" -> MetarResponseMessage_fmt(m)
      [] m.kind = "PingMessage" -> PingMessage_fmt(m)
      [] m.kind = "PongMessage" -> PongMessage_fmt(m)
      [] m.kind = "PlaneInfoRequestMessage" -> PlaneInfoRequestMessage_fmt(m)
      [] m.kind = "HandoffOfferMessage" -> HandoffOfferMessage_fmt(m)
      [] m.kind = "HandoffAcceptMessage" -> HandoffAcceptMessage_fmt(m)
      [] m.kind = "InitialClientHandshakeMessage" -> InitialClientHandshakeMessage_fmt(m)
      [] m.kind = "FsdErrorMessage" -> FsdErrorMessage_fmt(m)
      [] m.kind = "PilotPositionUpdateMessage" -> PilotPositionUpdateMessage_fmt(m)
      [] m.kind = "VelocityPositionSlowMessage" -> VelocityPositionSlowMessage_fmt(m)
      [] m.kind = "VelocityPositionFastMessage" -> VelocityPositionFastMessage_fmt(m)

-----------------------------------------------------------------------------
(* The state machine.                                                      *)

NoRes == [tag |-> "none", msg |-> NoMsg, err |-> NoErr]

Init ==
    /\ pc = "idle"
    /\ how = "none"
    /\ variant = "none"
    /\ fields = <<>>
    /\ res = NoRes
    /\ line = <<>>
    /\ back = NoRes

\* the caller hands the fields of a line to the parser of their variant
ParseLine ==
    /\ pc = "idle"
    /\ \E s \in Samples : \E fs \in Lines(s.fs) :
         \E ok \in (IF s.v \in Collaborating THEN BOOLEAN ELSE {TRUE}) :
            /\ variant' = s.v
            /\ fields' = fs
            /\ res' = Parse(s.v, fs, ok)
    /\ pc' = "result"
    /\ how' = "parse"
    /\ UNCHANGED <<line, back>>

\* the caller builds a message with the public constructor
Construct ==
    /\ pc = "idle"
    /\ \E v \in Constructed : \E from \in Callsigns, to \in Callsigns :
         \E text \in FreeTexts, present \in BOOLEAN, e \in ErrorValues :
            \E client_id \in ClientIds :
                /\ variant' = v
                /\ res' = Ok(New(v, from, to, text, present, e, client_id))
    /\ pc' = "result"
    /\ how' = "new"
    /\ UNCHANGED <<fields, line, back>>

\* the caller builds a pilot position update with two whole altitudes
ConstructPosition ==
    /\ pc = "idle"
    /\ \E from \in Callsigns, true_altitude \in Altitudes, pressure_altitude \in Altitudes :
            res' = Ok(PilotPositionUpdateMessage_new(from, 1, 1234, 1, F64(55, 9000),
                          F64(0 - 4, 7000), F64(true_altitude, 0),
                          F64(pressure_altitude, 0), 50, 4096))
    /\ variant' = "PilotPositionUpdateMessage"
    /\ pc' = "result"
    /\ how' = "new"
    /\ UNCHANGED <<fields, line, back>>

\* the caller formats the message it holds
Format ==
    /\ pc \in { "result", "converted" }
    /\ res.tag = "ok"
    /\ variant \in Formatted
    /\ line' = Fmt(res.msg)
    /\ pc' = "formatted"
    /\ UNCHANGED <<how, variant, fields, res, back>>

\* the caller, having formatted a slow or a fast message, converts it into
\* the other kind
Convert ==
    /\ pc = "formatted"
    /\ \/ /\ variant = "VelocityPositionSlowMessage"
          /\ res' = Ok(VelocityPositionFastMessage_from(res.msg))
          /\ variant' = "VelocityPositionFastMessage"
       \/ /\ variant = "VelocityPositionFastMessage"
          /\ res' = Ok(slow_of_fast(res.msg))
          /\ variant' = "VelocityPositionSlowMessage"
    /\ pc' = "converted"
    /\ how' = "from"
    /\ UNCHANGED <<fields, line, back>>

\* the caller tokenizes the formatted line and parses its fields
Reparse ==
    /\ pc = "formatted"
    /\ back' = Parse(variant, split(line), TRUE)
    /\ pc' = "reparsed"
    /\ UNCHANGED <<how, variant, fields, res, line>>

\* the caller drops the values it holds
Discard ==
    /\ pc # "idle"
    /\ pc' = "idle"
    /\ how' = "none"
    /\ variant' = "none"
    /\ fields' = <<>>
    /\ res' = NoRes
    /\ line' = <<>>
    /\ back' = NoRes

Next ==
    ParseLine \/ Construct \/ ConstructPosition \/ Format \/ Convert \/ Reparse \/ Discard

Spec == Init /\ [][Next]_vars

-----------------------------------------------------------------------------
(* Several callers.  Each caller runs on a thread of its own and hands the *)
(* parsers and formatters values of its own; here every variable holds one *)
(* value per caller.  A call is two steps, its entry and its return, so    *)
(* that the calls of the callers overlap in every order.  The source keeps *)
(* no static and no cell: a call reads its arguments and its locals only.  *)

Callers == { 1, 2 }

\* the lines the callers parse: a text message and a ping, each cut or
\* extended to two, three and four fields
CallerInputs ==
    { [v |-> s.v, fs |-> Mutated(s.fs, n, 0, <<>>)] :
        s \in { t \in Samples : t.v \in { "TextMessage", "PingMessage" } }, n \in 2..4 }

InitCallers ==
    /\ pc = [c \in Callers |-> "idle"]
    /\ how = [c \in Callers |-> "none"]
    /\ variant = [c \in Callers |-> "none"]
    /\ fields = [c \in Callers |-> <<>>]
    /\ res = [c \in Callers |-> NoRes]
    /\ line = [c \in Callers |-> <<>>]
    /\ back = NoRes

\* the caller c enters a parser with a line of its own, or the formatter
\* with the message a parser has returned to it
Enter(c) ==
    /\ \/ /\ pc[c] = "idle"
          /\ \E input \in CallerInputs :
                /\ variant' = [variant EXCEPT ![c] = input.v]
                /\ fields' = [fields EXCEPT ![c] = input.fs]
          /\ how' = [how EXCEPT ![c] = "parse"]
       \/ /\ pc[c] = "returned"
          /\ how[c] = "parse"
          /\ res[c].tag = "ok"
          /\ how' = [how EXCEPT ![c] = "format"]
          /\ UNCHANGED <<variant, fields>>
    /\ pc' = [pc EXCEPT ![c] = "called"]
    /\ UNCHANGED <<res, line, back>>

\* the call of c returns what it computed from a line another caller handed
\* in, as a parser keeping its input in a static would
Leave_shared(c) ==
    /\ pc[c] = "called"
    /\ \/ /\ how[c] = "parse"
          /\ \E d \in Callers :
                /\ d = c \/ pc[d] = "called"
                /\ res' = [res EXCEPT ![c] = Parse(variant[c], fields[d], TRUE)]
          /\ UNCHANGED line
       \/ /\ how[c] = "format"
          /\ line' = [line EXCEPT ![c] = Fmt(res[c].msg)]
          /\ UNCHANGED res
    /\ pc' = [pc EXCEPT ![c] = "returned"]
    /\ UNCHANGED <<how, variant, fields, back>>

\* the call of c returns: the parser its result for the fields of c, the
\* formatter the text of the message of c
Leave(c) ==
    /\ pc[c] = "called"
    /\ \/ /\ how[c] = "parse"
          /\ res' = [res EXCEPT ![c] = Parse(variant[c], fields[c], TRUE)]
          /\ UNCHANGED line
       \/ /\ how[c] = "format"
          /\ line' = [line EXCEPT ![c] = Fmt(res[c].msg)]
          /\ UNCHANGED res
    /\ pc' = [pc EXCEPT ![c] = "returned"]
    /\ UNCHANGED <<how, variant, fields, back>>

\* the caller c drops the values it holds
Drop(c) ==
    /\ pc[c] = "returned"
    /\ pc' = [pc EXCEPT ![c] = "idle"]
    /\ how' = [how EXCEPT ![c] = "none"]
    /\ variant' = [variant EXCEPT ![c] = "none"]
    /\ fields' = [fields EXCEPT ![c] = <<>>]
    /\ res' = [res EXCEPT ![c] = NoRes]
    /\ line' = [line EXCEPT ![c] = <<>>]
    /\ UNCHANGED back

NextCallers == \E c \in Callers : Enter(c) \/ Leave(c) \/ Drop(c)

SpecCallers == InitCallers /\ [][NextCallers]_vars

-----------------------------------------------------------------------------
(* Properties.                                                             *)

\* the sender and recipient callsigns a message stores
CallsignFields(m) ==
    (IF "from" \in DOMAIN m THEN {m.from} ELSE {})
    \cup (IF "to" \in DOMAIN m /\ m.kind # "FrequencyMessage" THEN {m.to} ELSE {})
    \cup (IF "callsign" \in DOMAIN m THEN {m.callsign} ELSE {})

\* the literal of the count check that opens each parser
DeclaredCount(v) ==
    CASE v \in { "AtcDeregisterMessage", "PilotDeregisterMessage" } -> 1
      [] v = "KillMessage" -> 2
      [] v \in { "AuthenticationChallengeMessage", "AuthenticationResponseMessage",
                 "TextMessage", "FrequencyMessage", "ChangeServerMessage",
                 "InitialServerHandshakeMessage", "SendFastPositionUpdatesMessage",
                 "PingMessage", "PongMessage", "PlaneInfoRequestMessage",
                 "ClientQueryMessage", "HandoffOfferMessage",
                 "HandoffAcceptMessage" } -> 3
      [] v \in { "AtcSecondaryVisCentreMessage", "MetarRequestMessage",
                 "MetarResponseMessage", "ClientQueryResponseMessage",
                 "SharedStateMessage" } -> 4
      [] v \in { "PlaneInfoResponseMessage", "FsdErrorMessage" } -> 5
      [] v = "VelocityPositionStoppedMessage" -> 6
      [] v \in { "AtcRegisterMessage", "PilotRegisterMessage",
                 "AtcPositionUpdateMessage" } -> 7
      [] v = "InitialClientHandshakeMessage" -> 8
      [] v = "PilotPositionUpdateMessage" -> 10
      [] v \in { "VelocityPositionSlowMessage", "VelocityPositionFastMessage" } -> 12
      [] v = "FlightPlanMessage" -> 17
      [] v = "FlightPlanAmendmentMessage" -> 18

\* the variants whose count check asks for an exact count
ExactCount == { "FlightPlanMessage", "FlightPlanAmendmentMessage" }

\* a parser has returned for the line in fields
Parsed == pc = "result" /\ how = "parse"

\* C1: every message produced by a public constructor or by a parser stores
\* each sender and recipient callsign in upper case, whatever the case of
\* the input (PlaneInfoRequestMessage included).
C1_CallsignsStoredUpperCase ==
    (pc = "result" /\ res.tag = "ok")
        => \A c \in CallsignFields(res.msg) : c = to_uppercase(c)

\* C2: a line with fewer fields than the declared minimum of its variant (for
\* the flight plan and its amendment: a count other than the declared exact
\* count) yields InvalidFieldCount whose expected value is the declared
\* count, and no other outcome.
C2_TooFewFieldsIsInvalidFieldCount ==
    (/\ Parsed
     /\ IF variant \in ExactCount THEN Len(fields) # DeclaredCount(variant)
        ELSE Len(fields) < DeclaredCount(variant))
        => /\ res.tag = "err"
           /\ res.err.kind = "InvalidFieldCount"
           /\ res.err.expected = DeclaredCount(variant)

\* a kill line with its sender only is refused for its count
C2_Witness ==
    /\ Parsed
    /\ variant = "KillMessage"
    /\ Len(fields) = 1
    /\ res = Err(InvalidFieldCount(2, 1))

\* C3: every parse call returns a message or an error: for a line with at
\* least the declared minimum of fields no parser aborts.
C3_NoParserAborts ==
    (Parsed /\ Len(fields) >= DeclaredCount(variant)) => res.tag \in {"ok", "err"}

\* C4: every InvalidFieldCount error carries the actual number of fields of
\* the line that was parsed, the sub-type checks of the client query included.
C4_InvalidFieldCountCarriesActual ==
    (Parsed /\ res.tag = "err" /\ res.err.kind = "InvalidFieldCount")
        => res.err.actual = Len(fields)

\* C5: the flight plan parser accepts a line only if it has exactly 17 fields
\* and the amendment parser only if it has exactly 18; every other count
\* fails with InvalidFieldCount carrying the expected and the actual count.
C5_FlightPlanExactCount ==
    (Parsed /\ variant \in ExactCount)
        => /\ res.tag = "ok" => Len(fields) = DeclaredCount(variant)
           /\ Len(fields) # DeclaredCount(variant)
                => res = Err(InvalidFieldCount(DeclaredCount(variant), Len(fields)))

\* a flight plan line with one field more than 17 is refused
C5_Witness ==
    /\ Parsed
    /\ variant = "FlightPlanMessage"
    /\ Len(fields) = 18
    /\ res = Err(InvalidFieldCount(17, 18))

\* the callsigns of a line whose marker has three characters are upper case
UpperCaseCallsigns(fs) ==
    /\ Strip(F(fs, 0), 3) = to_uppercase(Strip(F(fs, 0), 3))
    /\ F(fs, 1) = to_uppercase(F(fs, 1))

\* C6: for a '#TM' line with at least 3 fields the parsed body is fields
\* 2..end joined with ':', and formatting the parsed message reproduces the
\* line when its two callsigns are already upper case.
C6_TextBodyRejoined ==
    (how = "parse" /\ variant = "TextMessage" /\ Len(fields) >= 3)
        => /\ pc \in {"result", "formatted"}
                => res.tag = "ok" /\ res.msg.message = join(From(fields, 2))
           /\ (pc = "formatted" /\ UpperCaseCallsigns(fields))
                => line = join(fields)

\* '#TMSERVER:ALL:Hello:World' has the body 'Hello:World' and is formatted
\* back to itself
C6_Witness ==
    /\ pc = "formatted"
    /\ how = "parse"
    /\ variant = "TextMessage"
    /\ fields = << <<"#","T","M","S","E","R","V","E","R">>, <<"A","L","L">>,
                   <<"H","e","l","l","o">>, <<"W","o","r","l","d">> >>
    /\ res.msg.message = <<"H","e","l","l","o",":","W","o","r","l","d">>
    /\ line = join(fields)

\* C7: every variant with a free-text tail (chat text, METAR response text,
\* help request, cancelled help request) parses the tail as all the fields
\* from its position to the end of the line, joined with ':'.
C7_FreeTextTailRejoined ==
    (Parsed /\ res.tag = "ok")
        => /\ variant = "TextMessage"
                => res.msg.message = join(From(fields, 2))
           /\ variant = "MetarResponseMessage"
                => res.msg.metar = to_uppercase(join(From(fields, 3)))
           /\ (/\ variant = "ClientQueryMessage"
               /\ F(fields, 2) \in { <<"H","L","P">>, <<"N","O","H","L","P">> }
               /\ Len(fields) > 3 /\ join(From(fields, 3)) # <<>>)
                => res.msg.query_type.message = Some(join(From(fields, 3)))

\* an optional field on the wire: nothing when absent, else its text as one
\* more field
OptionalField(o) == IF o.some THEN <<o.val>> ELSE <<>>

\* C8: formatters append an optional field only when it is present, and then
\* preceded by ':': a kill message is '$!!A:B' without a reason and
\* '$!!A:B:bye' with the reason 'bye'; a deregister message has no trailing
\* ':' without its CID; a client handshake has its ninth field only with an
\* initial key.
C8_OptionalFieldOnlyWhenPresent ==
    (pc = "formatted")
        => /\ variant = "KillMessage"
                => line = join(<< <<"$","!","!">> \o res.msg.from, res.msg.to >>
                               \o OptionalField(res.msg.reason))
           /\ variant = "AtcDeregisterMessage"
                => line = join(<< <<"#","D","A">> \o res.msg.from >>
                               \o OptionalField(res.msg.cid))
           /\ variant = "PilotDeregisterMessage"
                => line = join(<< <<"#","D","P">> \o res.msg.from >>
                               \o OptionalField(res.msg.cid))
           /\ variant = "InitialClientHandshakeMessage"
                => line = join(<< Fmt([res.msg EXCEPT !.initial_key = None]) >>
                               \o OptionalField(res.msg.initial_key))
           /\ (variant = "InitialClientHandshakeMessage" /\ ~res.msg.initial_key.some)
                => Len(split(line)) = 7 + Len(split(res.msg.client_name))

\* the kill message of A for B with the reason 'bye' is '$!!A:B:bye'
C8_Witness ==
    /\ pc = "formatted"
    /\ how = "new"
    /\ variant = "KillMessage"
    /\ res.msg = KillMessage_new(<<"A">>, <<"B">>, Some(<<"b","y","e">>))
    /\ line = <<"$","!","!","A",":","B",":","b","y","e">>

\* the variants whose fields are all strings
StringOnly ==
    { "KillMessage", "PingMessage", "PongMessage", "TextMessage",
      "AuthenticationChallengeMessage", "AuthenticationResponseMessage",
      "ChangeServerMessage", "MetarRequestMessage", "MetarResponseMessage",
      "HandoffOfferMessage", "HandoffAcceptMessage", "AtcDeregisterMessage",
      "PilotDeregisterMessage" }

\* C9: a message built by the constructor of a string-only variant with
\* colon-free callsigns and arbitrary free text is equal, in every field, to
\* the message parsed from the fields of its formatted text.
C9_StringOnlyRoundTrip ==
    (pc = "reparsed" /\ how = "new" /\ variant \in StringOnly)
        => back.tag = "ok" /\ back.msg = res.msg

\* C10: a server error message built by FsdErrorMessage::new is parsed back
\* from its formatted text with the same error kind and the same carried
\* name or text.
C10_ServerErrorRoundTrip ==
    (pc = "reparsed" /\ how = "new" /\ variant = "FsdErrorMessage")
        => /\ back.tag = "ok"
           /\ back.msg.error_type.kind = res.msg.error_type.kind
           /\ back.msg.error_type.text = res.msg.error_type.text

\* C11: the error message parser maps the code in field 2 to an error kind:
\* 7, 8 and 9 give NoSuchCallsign, NoFlightPlan and NoWeatherProfile with the
\* upper-cased text of field 3; every code in 0..255 outside 1..17 gives
\* Other with field 4; text that is not an integer in 0..255 fails with
\* InvalidServerError carrying that text.
C11_ErrorCodeMapping ==
    (Parsed /\ variant = "FsdErrorMessage" /\ Len(fields) >= 5)
        => LET code == parse_u8(F(fields, 2))
               named(k) == res.tag = "ok"
                           /\ res.msg.error_type
                                = FsdError(k, to_uppercase(F(fields, 3)))
           IN /\ ~code.some
                   => res = Err(TextError("InvalidServerError", F(fields, 2)))
              /\ (code.some /\ code.val = 7) => named("NoSuchCallsign")
              /\ (code.some /\ code.val = 8) => named("NoFlightPlan")
              /\ (code.some /\ code.val = 9) => named("NoWeatherProfile")
              /\ (code.some /\ code.val \notin 1..17)
                   => /\ res.tag = "ok"
                      /\ res.msg.error_type = FsdError("Other", F(fields, 4))

\* '$ERserver:ab:009:egph:msg' is the error NoWeatherProfile("EGPH")
C11_Witness ==
    /\ Parsed
    /\ variant = "FsdErrorMessage"
    /\ Len(fields) = 5
    /\ F(fields, 2) = <<"0","0","9">>
    /\ F(fields, 3) = <<"e","g","p","h">>
    /\ res.tag = "ok"
    /\ res.msg.error_type = FsdError("NoWeatherProfile", <<"E","G","P","H">>)

\* fields 2..6 of an ATC position update are valid values of their types
ValidAtcPositionFields(fs) ==
    /\ AtcType_from_str(F(fs, 2)).ok
    /\ parse_u32(F(fs, 3)).some
    /\ AtcRating_from_str(F(fs, 4)).ok
    /\ parse_f64(F(fs, 5)).some
    /\ parse_f64(F(fs, 6)).some

\* C12: an ATC position update with at least 7 fields and valid fields 1..6
\* always parses: its elevation is the integer of field 7 when that field is
\* present and a valid integer, and 0 when it is absent or not an integer.
C12_ElevationDefaultsToZero ==
    (/\ Parsed
     /\ variant = "AtcPositionUpdateMessage"
     /\ Len(fields) >= 7
     /\ ValidAtcPositionFields(fields))
        => /\ res.tag = "ok"
           /\ res.msg.elevation
                = IF Len(fields) > 7 /\ parse_i32(F(fields, 7)).some
                  THEN parse_i32(F(fields, 7)).val ELSE 0

\* the elevation 'abc' is parsed as 0
C12_Witness ==
    /\ Parsed
    /\ variant = "AtcPositionUpdateMessage"
    /\ Len(fields) = 8
    /\ F(fields, 7) = <<"a","b","c">>
    /\ res.tag = "ok"
    /\ res.msg.elevation = 0

\* C13: the elevation of the ATC position update is the only field whose
\* unparseable value is silently replaced by a default: in every other
\* parser a present field whose text is no valid value of its type makes the
\* parse return an error; so for the send-fast flag of '$SF', the logoff time
\* of an ATIS 'Z' line and the format number of a flight strip 'ST'.
C13_NoOtherSilentDefault ==
    Parsed
        => /\ (/\ variant = "SendFastPositionUpdatesMessage"
               /\ Len(fields) >= 3
               /\ F(fields, 2) \notin { <<"0">>, <<"1">> })
                => res.tag = "err"
           /\ (/\ variant = "ClientQueryResponseMessage"
               /\ Len(fields) >= 5
               /\ F(fields, 2) = <<"A","T","I","S">>
               /\ F(fields, 3) = <<"Z">>
               /\ ~parse_u16(logoff_text(F(fields, 4))).some)
                => res.tag = "err"
           /\ (/\ variant = "SharedStateMessage"
               /\ Len(fields) >= 6
               /\ F(fields, 3) = <<"S","T">>
               /\ ~parse_i32(F(fields, 5)).some)
                => res.tag = "err"

\* LandLineType and the kinds of LandLineCommand
LandLineTypes == { "Intercom", "Override", "Monitor" }
LandLineCommands == { "Request", "Approve", "Reject", "End" }

\* C14: the shared state parser maps the 12 land line codes one-to-one onto
\* the 12 pairs of a channel type and a command: the pair parsed from a code
\* is the pair of no other code, and every pair is the pair of some code.
C14_LandLineCodesOneToOne ==
    (/\ Parsed
     /\ variant = "SharedStateMessage"
     /\ res.tag = "ok"
     /\ F(fields, 3) \in LandLineCodes)
        => LET t == res.msg.shared_state_type
           IN /\ t.landline_type \in LandLineTypes
              /\ t.landline_command \in LandLineCommands
              /\ \A c \in LandLineCodes :
                    (/\ landline_type(c) = t.landline_type
                     /\ landline_command(c) = t.landline_command)
                        => c = F(fields, 3)
              /\ { <<landline_type(c), landline_command(c)>> : c \in LandLineCodes }
                    = LandLineTypes \X LandLineCommands

\* the code OB is parsed as the rejection of an override line
C14_Witness ==
    /\ Parsed
    /\ variant = "SharedStateMessage"
    /\ res.tag = "ok"
    /\ F(fields, 3) = <<"O","B">>
    /\ res.msg.shared_state_type.landline_type = "Override"
    /\ res.msg.shared_state_type.landline_command = "Reject"


\* whether the text s starts with the text p
StartsWith(s, p) == Len(s) >= Len(p) /\ SubSeq(s, 1, Len(p)) = p

\* C15: a client query IPC with at least 6 fields parses to a
\* ForceBeaconCode request, with the code decoded from the BCD text of
\* field 5, exactly when field 3 is W, field 4 is 852 and the BCD text is
\* valid; when field 3 or field 4 differs, it fails with UnknownMessageType
\* and a text that starts with "IPC:".
C15_ForceBeaconCodeOnlyForW852 ==
    (/\ Parsed
     /\ variant = "ClientQueryMessage"
     /\ Len(fields) >= 6
     /\ F(fields, 2) = <<"I","P","C">>)
        => LET code == try_from_bcd_format(F(fields, 5))
               w852 == F(fields, 3) = <<"W">> /\ F(fields, 4) = <<"8","5","2">>
           IN /\ res.tag = "ok" <=> (w852 /\ code.ok)
              /\ res.tag = "ok"
                    => /\ res.msg.query_type.t = <<"I","P","C">>
                       /\ res.msg.query_type.code = code.val
              /\ ~w852
                    => /\ res.tag = "err"
                       /\ res.err.kind = "UnknownMessageType"
                       /\ StartsWith(res.err.text, <<"I","P","C",":">>)

\* the line $CQab:SERVER:IPC:W:852:8704 gives the code 2200
C15_Witness ==
    /\ Parsed
    /\ variant = "ClientQueryMessage"
    /\ Len(fields) >= 6
    /\ F(fields, 2) = <<"I","P","C">>
    /\ F(fields, 3) = <<"W">>
    /\ F(fields, 4) = <<"8","5","2">>
    /\ F(fields, 5) = <<"8","7","0","4">>
    /\ res.tag = "ok"
    /\ res.msg.query_type.code = 2200


\* the sub-types the three parsers know, as their match arms list them
KnownQueries ==
    { <<"C","?">>, <<"I","P">>, <<"A","T","I","S">>, <<"R","N">>, <<"I","P","C">>,
      <<"S","V">>, <<"A","C","C">>, <<"B","Y">>, <<"H","L","P">>,
      <<"N","O","H","L","P">>, <<"S","C">>, <<"F","A">>, <<"B","C">>,
      <<"A","T","C">>, <<"F","P">>, <<"N","E","W","A","T","I","S">>,
      <<"N","E","W","I","N","F","O">>, <<"V","T">>, <<"W","H">>, <<"T","A">>,
      <<"H","T">>, <<"D","R">>, <<"C","A","P","S">>, <<"I","T">>, <<"H","I">>,
      <<"I","N","F">>, <<"S","I","M","T","I","M","E">>, <<"G","D">> }
KnownResponses ==
    { <<"C","?">>, <<"A","T","I","S">>, <<"R","N">>, <<"I","P">>, <<"S","V">>,
      <<"A","T","C">>, <<"C","A","P","S">> }
KnownStates ==
    { <<"V","E","R">>, <<"I","D">>, <<"D","I">>, <<"I","H">>, <<"S","C">>,
      <<"G","D">>, <<"T","A">>, <<"F","A">>, <<"V","T">>, <<"B","C">>,
      <<"H","C">>, <<"P","T">>, <<"D","P">>, <<"S","T">>,
      <<"I","C">>, <<"I","K">>, <<"I","B">>, <<"E","C">>, <<"O","V">>, <<"O","K">>,
      <<"O","B">>, <<"E","O">>, <<"M","N">>, <<"M","K">>, <<"M","B">>, <<"E","M">> }

\* C16: a line that passes the count check of its parser and whose
\* second-level discriminator is none of the known sub-types fails with an
\* error that carries exactly the text of the discriminator:
\* UnknownMessageType(field 2) for a client query and for a response,
\* InvalidSharedStateType(field 3) for a shared state message.
C16_UnknownDiscriminatorRejected ==
    /\ (/\ Parsed
        /\ variant = "ClientQueryMessage"
        /\ Len(fields) >= 3
        /\ F(fields, 2) \notin KnownQueries)
            => res = Err(TextError("UnknownMessageType", F(fields, 2)))
    /\ (/\ Parsed
        /\ variant = "ClientQueryResponseMessage"
        /\ Len(fields) >= 4
        /\ F(fields, 2) \notin KnownResponses)
            => res = Err(TextError("UnknownMessageType", F(fields, 2)))
    /\ (/\ Parsed
        /\ variant = "SharedStateMessage"
        /\ Len(fields) >= 4
        /\ F(fields, 3) \notin KnownStates)
            => res = Err(TextError("InvalidSharedStateType", F(fields, 3)))

\* a client query with the discriminator "ab" has been refused with its text
C16_Witness ==
    /\ Parsed
    /\ variant = "ClientQueryMessage"
    /\ Len(fields) >= 3
    /\ F(fields, 2) = <<"a","b">>
    /\ res = Err(TextError("UnknownMessageType", <<"a","b">>))


\* the number of fields a sub-type reads: the highest index it reads, plus one
FieldsRead(v, t) ==
    IF v = "ClientQueryMessage" /\ t \in { <<"S","C">>, <<"F","A">>, <<"B","C">> } THEN 5
    ELSE IF v = "ClientQueryResponseMessage" /\ t = <<"R","N">> THEN 6
    ELSE IF v = "SharedStateMessage" /\ t \in ValueStates \cup { <<"G","D">>, <<"B","C">> }
    THEN 6
    ELSE 0

\* the second-level discriminator of a line of one of the three variants
Discriminator(v, fs) == IF v = "SharedStateMessage" THEN F(fs, 3) ELSE F(fs, 2)

\* C17: a sub-type enforces its own minimum field count: a line that passes
\* the first count check of its parser but has fewer fields than its sub-type
\* reads fails with InvalidFieldCount whose expected value is the number of
\* fields the sub-type reads (6 for the response RN, 6 for the shared state
\* BC, 5 for the client queries SC, FA and BC).
C17_SubTypeMinimumFieldCount ==
    (/\ Parsed
     /\ variant \in { "ClientQueryMessage", "ClientQueryResponseMessage", "SharedStateMessage" }
     /\ Len(fields) >= DeclaredCount(variant)
     /\ Len(fields) < FieldsRead(variant, Discriminator(variant, fields)))
        => /\ res.tag = "err"
           /\ res.err.kind = "InvalidFieldCount"
           /\ res.err.expected = FieldsRead(variant, Discriminator(variant, fields))


\* the conversions of a pilot position update and of a stopped velocity
\* update, listed by the index of the field each one reads
ByFieldIndex(v, fs) ==
    IF v = "PilotPositionUpdateMessage"
    THEN << TransponderMode_from_str(Strip(F(fs, 0), 1)),
            TransponderCode_from_str(F(fs, 2)),
            PilotRating_from_str(F(fs, 3)),
            Conv(parse_f64(F(fs, 4)), "InvalidCoordinate", F(fs, 4)),
            Conv(parse_f64(F(fs, 5)), "InvalidCoordinate", F(fs, 5)),
            Conv(parse_f64(F(fs, 6)), "InvalidAltitude", F(fs, 6)),
            Conv(parse_u32(F(fs, 7)), "InvalidSpeed", F(fs, 7)),
            Conv(parse_u32(F(fs, 8)), "InvalidPitchBankHeading", F(fs, 8)),
            Conv(parse_f64(F(fs, 9)), "InvalidAltitudeDifference", F(fs, 9)) >>
    ELSE << Conv(parse_f64(F(fs, 1)), "InvalidCoordinate", F(fs, 1)),
            Conv(parse_f64(F(fs, 2)), "InvalidCoordinate", F(fs, 2)),
            Conv(parse_f64(F(fs, 3)), "InvalidAltitude", F(fs, 3)),
            Conv(parse_f64(F(fs, 4)), "InvalidAltitude", F(fs, 4)),
            Conv(parse_u32(F(fs, 5)), "InvalidPitchBankHeading", F(fs, 5)),
            nose_gear(fs, 6) >>

\* C18: parsing fails on the first invalid field: when a line with enough
\* fields has invalid fields, the error returned is the one of the invalid
\* field with the lowest index (pilot position update, stopped velocity
\* update).
C18_LowestInvalidFieldReported ==
    (/\ Parsed
     /\ variant \in { "PilotPositionUpdateMessage", "VelocityPositionStoppedMessage" }
     /\ Len(fields) >= DeclaredCount(variant)
     /\ ~AllOk(ByFieldIndex(variant, fields)))
        => res = Err(FirstErr(ByFieldIndex(variant, fields)))


\* C19: a secondary visibility centre line with at least 4 fields fails
\* with InvalidIndex(field 1) when its index is invalid, and otherwise with
\* InvalidCoordinate carrying the text of the latitude (field 2) or of the
\* longitude (field 3), whichever is the first that is not a number.
C19_SecVisCoordinateErrorNamesField ==
    (/\ Parsed
     /\ variant = "AtcSecondaryVisCentreMessage"
     /\ Len(fields) >= 4)
        => /\ ~parse_usize(F(fields, 1)).some
                => res = Err(TextError("InvalidIndex", F(fields, 1)))
           /\ (parse_usize(F(fields, 1)).some /\ ~parse_f64(F(fields, 2)).some)
                => res = Err(TextError("InvalidCoordinate", F(fields, 2)))
           /\ (/\ parse_usize(F(fields, 1)).some
               /\ parse_f64(F(fields, 2)).some
               /\ ~parse_f64(F(fields, 3)).some)
                => res = Err(TextError("InvalidCoordinate", F(fields, 3)))


\* C20: an ATC register line without the protocol revision field (6 fields,
\* valid rating) parses to a message with the default revision 9; with the
\* field present and valid, the message has the revision given.
C20_ProtocolRevisionDefaultsWhenAbsent ==
    (/\ Parsed
     /\ variant = "AtcRegisterMessage"
     /\ Len(fields) >= 6
     /\ AtcRating_from_str(F(fields, 5)).ok)
        => /\ Len(fields) = 6
                => /\ res.tag = "ok"
                   /\ res.msg.protocol = 9
           /\ (Len(fields) >= 7 /\ ProtocolRevision_from_str(F(fields, 6)).ok)
                => /\ res.tag = "ok"
                   /\ res.msg.protocol = ProtocolRevision_from_str(F(fields, 6)).val


\* whether the f64 x is a whole number inside the i32 range
WholeI32(x) == x.big = 0 /\ x.f = 0

\* C21: the text of a pilot position update carries the true altitude and
\* the difference pressure altitude - true altitude, and the parser adds the
\* two: for every pair of whole altitudes inside the i32 range the message
\* parsed from the text of a message has the same true altitude and the same
\* pressure altitude.
C21_AltitudesRoundTrip ==
    (/\ pc = "reparsed"
     /\ variant = "PilotPositionUpdateMessage"
     /\ WholeI32(res.msg.true_altitude)
     /\ WholeI32(res.msg.pressure_altitude))
        => /\ back.tag = "ok"
           /\ back.msg.true_altitude = res.msg.true_altitude
           /\ back.msg.pressure_altitude = res.msg.pressure_altitude


\* the text s with its marker, n characters long, replaced by the marker m
Remarked(s, n, m) == m \o Strip(s, n)

U16 == 0..65535

\* the text s is written with digits of base 16 only, four of them, none a
\* capital letter
FourLowerHex(s) == Len(s) = 4 /\ \A i \in 1..4 : \E k \in 1..16 : HexDigits[k] = s[i]

\* the text s is a number of base 16: digits of base 16, at least one, behind
\* at most one plus sign
Hexadecimal(s) ==
    LET t == IF s # <<>> /\ s[1] = "+" THEN Tail(s) ELSE s
    IN t # <<>> /\ \A i \in 1..Len(t) : IsHexChar(t[i])

\* C23: the handshake of the client is written with its client id as four
\* lower-case digits of base 16, and parsing that field gives the id back,
\* for every id of 16 bits; a field 2 that is no number of base 16, or one
\* above 65535, fails with InvalidClientID carrying the text of the field.
C23_ClientIdRoundTrip ==
    /\ pc = "idle"
         => \A id \in U16 :
               /\ FourLowerHex(ZeroPad(HexText(id), 4))
               /\ from_str_radix_16_u16(ZeroPad(HexText(id), 4)) = SomeN(id)
    /\ (pc \in { "formatted", "reparsed" } /\ variant = "InitialClientHandshakeMessage")
         => /\ FourLowerHex(split(line)[3])
            /\ from_str_radix_16_u16(split(line)[3]) = SomeN(res.msg.client_id)
            /\ (pc = "reparsed" /\ back.tag = "ok")
                 => back.msg.client_id = res.msg.client_id
    /\ (/\ pc = "result"
        /\ how = "parse"
        /\ variant = "InitialClientHandshakeMessage"
        /\ Len(fields) >= 8
        /\ \/ ~Hexadecimal(F(fields, 2))
           \/ HexValue(IF F(fields, 2)[1] = "+" THEN Tail(F(fields, 2)) ELSE F(fields, 2)) > 65535)
         => res = Err(TextError("InvalidClientID", F(fields, 2)))

\* the handshake of client 43981 has been written and parsed back
C23_Witness ==
    /\ pc = "reparsed"
    /\ variant = "InitialClientHandshakeMessage"
    /\ res.msg.client_id = 43981
    /\ split(line)[3] = <<"a","b","c","d">>
    /\ back.tag = "ok"


\* C24: a plane info response of five fields or more is accepted only with
\* GEN as its field 3; any other field 3 fails with UnknownMessageType
\* carrying the whole line, the fields joined with colons; a line of fewer
\* than five fields fails with InvalidFieldCount whatever its field 3 is.
C24_PlaneInfoResponseNeedsGen ==
    (pc = "result" /\ how = "parse" /\ variant = "PlaneInfoResponseMessage")
        => /\ Len(fields) < 5 => res = Err(InvalidFieldCount(5, Len(fields)))
           /\ (Len(fields) >= 5 /\ F(fields, 3) = <<"G","E","N">>) => res.tag = "ok"
           /\ (Len(fields) >= 5 /\ F(fields, 3) # <<"G","E","N">>)
                => /\ res.tag = "err"
                   /\ res.err.kind = "UnknownMessageType"
                   /\ split(res.err.text) = fields

\* a plane info response of six fields with another sub-type has been refused
C24_Witness ==
    /\ pc = "result"
    /\ how = "parse"
    /\ variant = "PlaneInfoResponseMessage"
    /\ Len(fields) = 6
    /\ F(fields, 3) = <<"a","b">>
    /\ res.tag = "err"
    /\ res.err.kind = "UnknownMessageType"
    /\ res.err.text = <<"#","S","B","a","b",":","c","d",":","P","I",":","a","b",":","B","7","3","8",":","x">>


\* the variants of a fixed shape whose parser asks for a minimum count
FixedShape ==
    { "PingMessage", "PongMessage", "AuthenticationChallengeMessage",
      "AuthenticationResponseMessage", "ChangeServerMessage", "HandoffOfferMessage",
      "HandoffAcceptMessage", "MetarRequestMessage", "SendFastPositionUpdatesMessage" }

\* the line cut to the declared shape of the variant v
Truncated(v, fs) == SubSeq(fs, 1, DeclaredCount(v))

\* C25: the parser of a variant of a fixed shape and a minimum count accepts
\* a line with fields beyond that shape and gives the message it gives for
\* the line cut to the shape.
C25_ExtraFieldsIgnored ==
    (Parsed /\ variant \in FixedShape /\ Len(fields) > DeclaredCount(variant))
        => /\ res.tag = "ok"
           /\ res = Parse(variant, Truncated(variant, fields), TRUE)

\* a ping of five fields has been parsed into the ping of its first three
C25_Witness ==
    /\ Parsed
    /\ variant = "PingMessage"
    /\ Len(fields) = 5
    /\ F(fields, 3) = Filler
    /\ res.tag = "ok"
    /\ res.msg.data = F(fields, 2)


C27_GlobalDataCallsignIsFieldThree ==
    (/\ Parsed
     /\ variant = "ClientQueryMessage"
     /\ Len(fields) >= 5
     /\ F(fields, 2) = <<"G","D">>)
        => /\ res.tag = "ok"
           /\ res.msg.query_type.aircraft_callsign = to_uppercase(F(fields, 3))
           /\ res.msg.query_type.value = F(fields, 4)


\* the land line codes of a request or an approval, and of a rejection or
\* an end
RequestApproveCodes == { <<"I","C">>, <<"I","K">>, <<"O","V">>, <<"O","K">>, <<"M","N">>, <<"M","K">> }
RejectEndCodes == { <<"I","B">>, <<"E","C">>, <<"O","B">>, <<"E","O">>, <<"M","B">>, <<"E","M">> }

\* the text of field i, the empty text when the line has no field i
FieldOrEmpty(fs, i) == IF Len(fs) > i THEN F(fs, i) ELSE <<>>

\* C28: a land line rejection or end (IB, EC, OB, EO, MB, EM) parses
\* whatever its fields 4 and 5 are, absent, valid or invalid; a request or
\* approval (IC, IK, OV, OK, MN, MK) parses only with an IPv4 address in
\* field 4 and a port of 16 bits in field 5, and fails otherwise with
\* InvalidIPAddress, looked at first, or InvalidPort, carrying the text of
\* the field, the empty text for an absent field.
C28_LandLineAddressAndPort ==
    (Parsed /\ variant = "SharedStateMessage" /\ Len(fields) >= 4)
        => /\ F(fields, 3) \in RejectEndCodes => res.tag = "ok"
           /\ F(fields, 3) \in RequestApproveCodes
                => IF ~(Len(fields) > 4 /\ parse_Ipv4Addr(F(fields, 4)).some)
                   THEN res = Err(TextError("InvalidIPAddress", FieldOrEmpty(fields, 4)))
                   ELSE IF ~(Len(fields) > 5 /\ parse_u16(F(fields, 5)).some)
                   THEN res = Err(TextError("InvalidPort", FieldOrEmpty(fields, 5)))
                   ELSE /\ res.tag = "ok"
                        /\ res.msg.shared_state_type.ip_address = parse_Ipv4Addr(F(fields, 4))
                        /\ res.msg.shared_state_type.port = parse_u16(F(fields, 5))

\* a request without address and port has been refused for its address
C28_Witness ==
    /\ Parsed
    /\ variant = "SharedStateMessage"
    /\ Len(fields) = 4
    /\ F(fields, 3) = <<"I","C">>
    /\ res = Err(TextError("InvalidIPAddress", <<>>))


\* the line fs with the error code d in its field 2
WithCode(fs, d) == [fs EXCEPT ![3] = ZeroPad(DecText(d), 3)]

\* C29: the parser of the server error gives distinct codes of 1..17
\* distinct kinds: the kind parsed from a line with one of these codes is
\* the kind of no other of them.
C29_ErrorCodesToDistinctKinds ==
    (/\ Parsed
     /\ variant = "FsdErrorMessage"
     /\ res.tag = "ok"
     /\ parse_u8(F(fields, 2)).val \in 1..17)
        => \A d \in (1..17) \ { parse_u8(F(fields, 2)).val } :
              FsdErrorMessage_try_from(WithCode(fields, d)).msg.error_type.kind
                  # res.msg.error_type.kind


\* the literal the formatter of the variant v writes as field 2
Literal(v) ==
    CASE v \in { "MetarRequestMessage", "MetarResponseMessage" } -> <<"M","E","T","A","R">>
      [] v = "PlaneInfoRequestMessage" -> <<"P","I","R">>
      [] v = "PlaneInfoResponseMessage" -> <<"P","I">>
      [] v = "SharedStateMessage" -> <<"C","C","P">>

\* the variants with a literal in field 2
WithLiteral ==
    { "MetarRequestMessage", "MetarResponseMessage", "PlaneInfoRequestMessage",
      "PlaneInfoResponseMessage", "SharedStateMessage" }

\* C30: the parser of a message with a literal in its field 2 (METAR, PIR,
\* PI, CCP) accepts a line only with that literal there, the text its
\* formatter writes; a line with another text in field 2 is rejected.
C30_LiteralTokenRequired ==
    (/\ Parsed
     /\ variant \in WithLiteral
     /\ Len(fields) >= 3
     /\ F(fields, 2) # Literal(variant))
        => res.tag = "err"

====
